---- MODULE Spec2Model ----
(***************************************************************************)
(* A model of speck (unyt-org/speck): the declarative binary structure     *)
(* parser (src/parser.ts), the generation-mode reader and the byte         *)
(* flattening (generator.ts, kept in src/unnamed/part_006) and the         *)
(* process-wide registry of custom parsers.                                *)
(*                                                                         *)
(* parseSection's loop over the top-level fields of a section is the state *)
(* machine: one step is one call of parseField on the next top-level       *)
(* field.  parseField itself (condition gate, repeat resolution, the       *)
(* iteration loop, nested children, bit masks, value decoding, assertion)  *)
(* is a recursive operator, computed as the code computes it.  The byte    *)
(* sources and the BitReader are also called directly, each by a caller    *)
(* that holds one.                                                         *)
(*                                                                         *)
(* Representation.                                                         *)
(*  - A byte is a number 0..255, a Uint8Array a sequence of bytes.         *)
(*  - A JS string that the code computes (decoded text, formatted          *)
(*    numbers, JSON.stringify output, enum keys) is a sequence of          *)
(*    character codes; names, ids and error messages, which the code only  *)
(*    compares or passes on, are TLA+ strings.                             *)
(*  - A ParsedValue is tagged with its JS type: Num, Str, Bool, List,      *)
(*    Flt (a float, identified by its bit pattern) and Undefined.          *)
(*  - A thrown Error is a record [kind, message, path]; kind is the error  *)
(*    class of the specification's taxonomy, message the fixed part of the *)
(*    text the code throws, path the field path the text includes.         *)
(***************************************************************************)
EXTENDS Integers, Sequences, FiniteSets, TLC

VARIABLES
    CUSTOM_PARSERS,   \* parser.ts:3   the registry Map: name -> function ("" = no entry)
    registryLog,      \* history: per name, the last registry operation and the function last registered
    phase,            \* "idle" | "parse" | "generate" | "reparse": which call is running
    definition,       \* the StructureDefinition of the running call
    reader,           \* the Uint8ArrayReader of the running call (data + offset, or defaults)
    sectionIdx,       \* parseStructureWithReader: index of the section being parsed
    fieldIdx,         \* parseSection: index of the next top-level field
    parsedSection,    \* parseSection: the section accumulated so far
    parsedStructure,  \* the sections completed so far
    status,           \* "running" | "done" | "failed"
    error,            \* the Error thrown, when status = "failed"
    lastCall,         \* history: arguments and result of the last top-level parseField
    generated,        \* round-trip script: the generated structure and its bytes
    packed,           \* parseAndPackStructure: the JSON tree the packer returned
    bitReader         \* a BitReader in the hands of a caller: its data and bit cursor

vars == <<CUSTOM_PARSERS, registryLog, phase, definition, reader, sectionIdx,
          fieldIdx, parsedSection, parsedStructure, status, error, lastCall,
          generated, packed, bitReader>>

----------------------------------------------------------------------------
(* Values and errors *)

Num(n) == [t |-> "num", v |-> n]
Str(s) == [t |-> "str", v |-> s]
Bool(b) == [t |-> "bool", v |-> b]
List(l) == [t |-> "list", v |-> l]
Flt(bits) == [t |-> "float", v |-> bits]
Undefined == [t |-> "undef", v |-> 0]

\* typeof x === "number"
IsNumber(x) == x.t \in {"num", "float"}

\* a === b on primitive values (two arrays are never ===)
StrictEquals(a, b) == a.t = b.t /\ a.t \in {"num", "str", "bool", "undef"} /\ a.v = b.v

Err(kind, message, path) == [kind |-> kind, message |-> message, path |-> path]
NoError == Err("none", "", <<>>)
IsError(e) == e.kind # "none"

----------------------------------------------------------------------------
(* Text helpers: strings as sequences of character codes *)

RECURSIVE DigitsOf(_)
\* the decimal digits of a natural number
DigitsOf(n) == IF n < 10 THEN <<48 + n>> ELSE DigitsOf(n \div 10) \o <<48 + (n % 10)>>

\* Number.prototype.toString() / JSON.stringify of an integer
NumberToString(n) == IF n < 0 THEN <<45>> \o DigitsOf(-n) ELSE DigitsOf(n)

RECURSIVE BinaryString(_)
\* b.toString(2)
BinaryString(b) == IF b < 2 THEN <<48 + b>> ELSE BinaryString(b \div 2) \o <<48 + (b % 2)>>

HexDigit(d) == IF d < 10 THEN 48 + d ELSE 87 + d

\* b.toString(16).padStart(2, "0")
HexByte(b) == <<HexDigit(b \div 16), HexDigit(b % 16)>>

RECURSIVE HexString(_)
HexString(bytes) ==
    IF bytes = <<>> THEN <<>> ELSE HexByte(Head(bytes)) \o HexString(Tail(bytes))

\* one character of a JSON string literal
JSONChar(c) ==
    IF c = 34 THEN <<92, 34>>
    ELSE IF c = 92 THEN <<92, 92>>
    ELSE IF c = 8 THEN <<92, 98>>
    ELSE IF c = 9 THEN <<92, 116>>
    ELSE IF c = 10 THEN <<92, 110>>
    ELSE IF c = 12 THEN <<92, 102>>
    ELSE IF c = 13 THEN <<92, 114>>
    ELSE IF c < 32 THEN <<92, 117, 48, 48>> \o HexByte(c)
    ELSE <<c>>

RECURSIVE JSONChars(_)
JSONChars(s) == IF s = <<>> THEN <<>> ELSE JSONChar(Head(s)) \o JSONChars(Tail(s))

RECURSIVE JSONStringify(_), JSONItems(_)
\* JSON.stringify(value); the empty text stands for the result undefined (no
\* defined value stringifies to the empty text)
JSONStringify(x) ==
    IF x.t = "num" THEN NumberToString(x.v)
    ELSE IF x.t = "str" THEN <<34>> \o JSONChars(x.v) \o <<34>>
    ELSE IF x.t = "bool" THEN (IF x.v THEN <<116, 114, 117, 101>> ELSE <<102, 97, 108, 115, 101>>)
    ELSE IF x.t = "list" THEN <<91>> \o JSONItems(x.v) \o <<93>>
    ELSE IF x.t = "float" THEN <<102>> \o HexString(x.v)
    ELSE <<>>

\* the items of an array; an undefined item is written null
JSONItems(l) ==
    IF l = <<>> THEN <<>>
    ELSE (IF Head(l).t = "undef" THEN <<110, 117, 108, 108>> ELSE JSONStringify(Head(l)))
         \o (IF Len(l) > 1 THEN <<44>> \o JSONItems(Tail(l)) ELSE <<>>)

\* s.startsWith(prefix)
StartsWith(s, prefix) ==
    Len(s) >= Len(prefix) /\ SubSeq(s, 1, Len(prefix)) = prefix

\* s.slice(n) for 0 <= n
SliceFrom(s, n) == IF n >= Len(s) THEN <<>> ELSE SubSeq(s, n + 1, Len(s))

\* the value of a character as a digit (36 when it is none)
DigitValue(c) ==
    IF c >= 48 /\ c <= 57 THEN c - 48
    ELSE IF c >= 97 /\ c <= 122 THEN c - 87
    ELSE IF c >= 65 /\ c <= 90 THEN c - 55
    ELSE 36

IsWhiteSpace(c) == c \in {9, 10, 11, 12, 13, 32}

RECURSIVE TrimStart(_)
TrimStart(s) == IF s # <<>> /\ IsWhiteSpace(Head(s)) THEN TrimStart(Tail(s)) ELSE s

RECURSIVE ParseDigits(_, _, _, _)
\* the longest prefix of s of digits of the radix: [nan, n]
ParseDigits(s, radix, acc, seen) ==
    IF s = <<>> \/ DigitValue(Head(s)) >= radix
    THEN [nan |-> ~seen, n |-> acc]
    ELSE ParseDigits(Tail(s), radix, acc * radix + DigitValue(Head(s)), TRUE)

\* parseInt(s, radix) for radix 2, 10, 16: leading white space, a sign, for
\* radix 16 a 0x prefix, then the longest prefix of digits; NaN when empty
ParseInt(s, radix) ==
    LET Signed(neg, r) == [nan |-> r.nan, n |-> IF neg THEN 0 - r.n ELSE r.n]
        Digits(neg, u) ==
            Signed(neg, ParseDigits(IF radix = 16 /\ (StartsWith(u, <<48, 120>>)
                                                      \/ StartsWith(u, <<48, 88>>))
                                    THEN SliceFrom(u, 2) ELSE u,
                                    radix, 0, FALSE))
        Sign(t) == Digits(t # <<>> /\ Head(t) = 45,
                          IF t # <<>> /\ Head(t) \in {43, 45} THEN Tail(t) ELSE t)
    IN  Sign(TrimStart(s))

----------------------------------------------------------------------------
(* Numbers *)

\* ToInt32 of (num << 8) | b for an int32 num and a byte b, without leaving
\* the 32-bit range: the low 24 bits of num move up, the top 8 are lost
ShiftLeft8Or(num, b) ==
    LET low24 == num % 16777216
    IN  IF low24 >= 8388608 THEN (low24 - 16777216) * 256 + b ELSE low24 * 256 + b

RECURSIVE NumberLELoop(_, _, _)
NumberLELoop(arr, i, num) ==
    IF i < 1 THEN num ELSE NumberLELoop(arr, i - 1, ShiftLeft8Or(num, arr[i]))

\* uint8ArrayToNumberLE: [err, n]
uint8ArrayToNumberLE(arr) ==
    IF Len(arr) > 6
    THEN [err |-> Err("DecodeError", "Too many bytes for a safe JS number", <<>>), n |-> 0]
    ELSE [err |-> NoError, n |-> NumberLELoop(arr, Len(arr), 0)]

\* new DataView(bytes.buffer).getUint16(0, littleEndian)
getUint16(bytes, endianness) ==
    IF endianness = "little" THEN bytes[1] + 256 * bytes[2] ELSE 256 * bytes[1] + bytes[2]

\* new DataView(bytes.buffer).getInt16(0, littleEndian)
getInt16(bytes, endianness) ==
    LET Signed(u) == IF u >= 32768 THEN u - 65536 ELSE u
    IN  Signed(getUint16(bytes, endianness))

\* new DataView(bytes.buffer).getInt32(0, littleEndian)
getInt32(bytes, endianness) ==
    LET Signed(top) == IF top >= 128 THEN top - 256 ELSE top
        BigEndian(be) == Signed(be[1]) * 16777216 + be[2] * 65536 + be[3] * 256 + be[4]
    IN  BigEndian(IF endianness = "little"
                  THEN <<bytes[4], bytes[3], bytes[2], bytes[1]>> ELSE bytes)

\* dataView.setUint16(0, k, e) followed by dataView.getUint16(0, e): ToUint16(k)
SetGetUint16(k) == k % 65536

\* dataView.setUint32(0, k, e); dataView.getUint32(0, e) === k, for an integer k
\* of the modelled range (|k| < 2^31): ToUint32(k) is k exactly when k >= 0
SetGetUint32Same(k) == k >= 0

RECURSIVE BitsOfBytes(_)
\* the bits of a byte sequence, the top bit of the first byte first
BitsOfBytes(bytes) ==
    IF bytes = <<>> THEN <<>>
    ELSE [k \in 1..8 |-> (Head(bytes) \div (2 ^ (8 - k))) % 2] \o BitsOfBytes(Tail(bytes))

RECURSIVE BitsValue(_, _)
\* the unsigned number a bit sequence writes
BitsValue(bits, acc) ==
    IF bits = <<>> THEN acc ELSE BitsValue(Tail(bits), 2 * acc + Head(bits))

\* the IEEE 754 fields of a float32 (4 bytes) or float64 (8 bytes) given by its
\* bytes, most significant first: sign, biased exponent, fraction bits
FloatParts(bytes) ==
    LET width == IF Len(bytes) = 4 THEN 8 ELSE 11
        Parts(bits) ==
            [negative |-> bits[1] = 1,
             exponent |-> BitsValue(SubSeq(bits, 2, width + 1), 0),
             top |-> 2 ^ width - 1,
             bias |-> 2 ^ (width - 1) - 1,
             fraction |-> SubSeq(bits, width + 2, Len(bits))]
    IN  Parts(BitsOfBytes(bytes))

\* the first n bits of a fraction, zeros beyond its end
FractionHead(fraction, n) ==
    [k \in 1..n |-> IF k <= Len(fraction) THEN fraction[k] ELSE 0]

\* whether a bit beyond the first n of a fraction is set
FractionTail(fraction, n) == \E k \in (n + 1)..Len(fraction) : fraction[k] = 1

\* i < x for an integer 0 <= i < 2^30 and a float x: false for NaN, for zero
\* and for every negative x; true for +Infinity
IndexBelowFloat(i, bytes) ==
    LET Below(f) ==
            IF f.exponent = f.top THEN ~f.negative /\ ~FractionTail(f.fraction, 0)
            ELSE IF f.negative THEN FALSE
            ELSE IF f.exponent = 0 THEN i = 0 /\ FractionTail(f.fraction, 0)
            ELSE IF f.exponent < f.bias THEN i = 0
            ELSE IF f.exponent - f.bias >= 30 THEN TRUE
            ELSE \/ i < BitsValue(FractionHead(f.fraction, f.exponent - f.bias), 1)
                 \/ /\ i = BitsValue(FractionHead(f.fraction, f.exponent - f.bias), 1)
                    /\ FractionTail(f.fraction, f.exponent - f.bias)
    IN  Below(FloatParts(bytes))

\* a float as a condition: neither zero nor NaN
FloatIsTruthy(bytes) ==
    LET Truthy(f) ==
            IF f.exponent = f.top THEN ~FractionTail(f.fraction, 0)
            ELSE f.exponent # 0 \/ FractionTail(f.fraction, 0)
    IN  Truthy(FloatParts(bytes))

\* i < x for a loop index i and a number x
IndexBelow(i, x) == IF x.t = "float" THEN IndexBelowFloat(i, x.v) ELSE i < x.v

----------------------------------------------------------------------------
(* Byte sources *)

RECURSIVE Zeros(_)
\* new Uint8Array(new Array(count).fill(0))
Zeros(count) == IF count <= 0 THEN <<>> ELSE <<0>> \o Zeros(count - 1)

\* data.slice(from, to) on a Uint8Array, 0 <= from
Slice(data, from, to) ==
    LET hi == IF to > Len(data) THEN Len(data) ELSE to
    IN  IF hi <= from THEN <<>> ELSE SubSeq(data, from + 1, hi)

\* new DefaultUint8ArrayReader(data)
DataReader(data) == [mode |-> "data", data |-> data, offset |-> 0, customByteData |-> [t |-> "undef"]]

\* a peekBytes that moves the offset past the bytes it returns
DefaultPeekBytesAdvancing(r, count) ==
    IF r.offset + count > Len(r.data)
    THEN [err |-> Err("OutOfRange", "Attempt to read beyond end of data", <<>>),
          bytes |-> <<>>, reader |-> r]
    ELSE [err |-> NoError, bytes |-> Slice(r.data, r.offset, r.offset + count),
          reader |-> [r EXCEPT !.offset = r.offset + count]]

\* DefaultUint8ArrayReader.peekBytes: [err, bytes, reader]
DefaultPeekBytes(r, count) ==
    IF r.offset + count > Len(r.data)
    THEN [err |-> Err("OutOfRange", "Attempt to read beyond end of data", <<>>),
          bytes |-> <<>>, reader |-> r]
    ELSE [err |-> NoError, bytes |-> Slice(r.data, r.offset, r.offset + count), reader |-> r]

\* DefaultUint8ArrayReader.readBytes: [err, bytes, reader]
DefaultReadBytes(r, count) ==
    IF r.offset + count > Len(r.data)
    THEN [err |-> Err("OutOfRange", "Attempt to read beyond end of data", <<>>),
          bytes |-> <<>>, reader |-> r]
    ELSE [err |-> NoError, bytes |-> Slice(r.data, r.offset, r.offset + count),
          reader |-> [r EXCEPT !.offset = r.offset + count]]

\* The defaults tree (CustomBytes): a node is [t |-> "undef"], an array
\* [t |-> "arr", v |-> numbers] or an object [t |-> "obj", v |-> name -> node]
NoDefaults == [t |-> "undef"]
Bytes(v) == [t |-> "arr", v |-> v]
Obj(f) == [t |-> "obj", v |-> f]

\* new Uint8ArrayGeneratorReader(customByteData)
GeneratorReader(customByteData) ==
    [mode |-> "gen", data |-> <<>>, offset |-> 0, customByteData |-> customByteData]

RECURSIVE LookupDefaults(_, _, _)
\* a walk that stops at an array part-way and returns it
LookupDefaultsStoppingAtArrays(customBytes, fieldPath, i) ==
    IF i > Len(fieldPath) \/ customBytes.t # "obj"
    THEN [invalid |-> FALSE, node |-> customBytes]
    ELSE LookupDefaults(
            IF fieldPath[i] \in DOMAIN customBytes.v THEN customBytes.v[fieldPath[i]] ELSE NoDefaults,
            fieldPath, i + 1)

\* the loop over fieldPath: [invalid, node]
LookupDefaults(customBytes, fieldPath, i) ==
    IF i > Len(fieldPath) \/ customBytes.t = "undef"
    THEN [invalid |-> FALSE, node |-> customBytes]
    ELSE IF customBytes.t = "arr"
    THEN [invalid |-> TRUE, node |-> customBytes]
    ELSE LookupDefaults(
            IF fieldPath[i] \in DOMAIN customBytes.v THEN customBytes.v[fieldPath[i]] ELSE NoDefaults,
            fieldPath, i + 1)

RECURSIVE ToUint8Array(_)
\* new Uint8Array(numbers): each number modulo 256
ToUint8Array(l) == IF l = <<>> THEN <<>> ELSE <<Head(l) % 256>> \o ToUint8Array(Tail(l))

\* Uint8ArrayGeneratorReader.readBytes (peekBytes is the same call): [err, bytes, reader]
GeneratorReadBytes(r, count, fieldPath) ==
    LET Found(found) ==
        IF found.invalid
        THEN [err |-> Err("InvalidDefaults", "Invalid path to custom byte data", fieldPath),
              bytes |-> <<>>, reader |-> r]
        ELSE IF found.node.t = "undef"
        THEN [err |-> NoError, bytes |-> Zeros(count), reader |-> r]
        ELSE IF found.node.t # "arr"
        THEN [err |-> Err("InvalidDefaults", "Invalid path to custom byte data", fieldPath),
              bytes |-> <<>>, reader |-> r]
        ELSE IF Len(found.node.v) < count
        THEN [err |-> Err("InvalidDefaults", "Not enough custom byte data for field", fieldPath),
              bytes |-> <<>>, reader |-> r]
        ELSE [err |-> NoError, bytes |-> ToUint8Array(found.node.v), reader |-> r]
    IN  Found(LookupDefaults(r.customByteData, fieldPath, 1))

\* reader.readBytes(count, path), by the reader's class
readBytes(r, count, fieldPath) ==
    IF r.mode = "data" THEN DefaultReadBytes(r, count) ELSE GeneratorReadBytes(r, count, fieldPath)

\* a peek that is a read
peekBytesAsRead(r, count, fieldPath) == readBytes(r, count, fieldPath)

\* reader.peekBytes(count, path), by the reader's class
peekBytes(r, count, fieldPath) ==
    IF r.mode = "data" THEN DefaultPeekBytes(r, count) ELSE GeneratorReadBytes(r, count, fieldPath)

----------------------------------------------------------------------------
(* BitReader *)

\* a BitReader that takes the bits of a byte from the top:
\* (this.data[byteIndex] >> (7 - bitIndex)) & 1
BitOfMsbFirst(data, bitOffset) ==
    LET byteIndex == bitOffset \div 8
        bitIndex == bitOffset % 8
    IN  IF byteIndex < Len(data) THEN (data[byteIndex + 1] \div (2 ^ (7 - bitIndex))) % 2 ELSE 0

\* (this.data[byteIndex] >> bitIndex) & 1; a byte beyond the data is undefined,
\* and undefined >> n is 0
BitOf(data, bitOffset) ==
    LET byteIndex == bitOffset \div 8
        bitIndex == bitOffset % 8
    IN  IF byteIndex < Len(data) THEN (data[byteIndex + 1] \div (2 ^ bitIndex)) % 2 ELSE 0

RECURSIVE ReadBitsLoop(_, _, _, _, _)
\* the for loop of readBits: result[i div 8] |= bit << (i mod 8)
ReadBitsLoop(data, bitOffset, count, i, result) ==
    IF i >= count THEN result
    ELSE LET bit == BitOf(data, bitOffset + i)
             resByteIndex == i \div 8
             resBitIndex == i % 8
         IN  ReadBitsLoop(data, bitOffset, count, i + 1,
                 [result EXCEPT ![resByteIndex + 1] = @ + bit * (2 ^ resBitIndex)])

\* BitReader.readBits(count) at bit cursor bitOffset: [err, bytes, bitOffset]
readBits(data, bitOffset, count) ==
    IF count < 0
    THEN [err |-> Err("Error", "Cannot read negative bits", <<>>),
          bytes |-> <<>>, bitOffset |-> bitOffset]
    ELSE [err |-> NoError,
          bytes |-> ReadBitsLoop(data, bitOffset, count, 0, Zeros((count + 7) \div 8)),
          bitOffset |-> bitOffset + count]

----------------------------------------------------------------------------
(* Value decoders *)

RECURSIVE DecodeUtf8(_)
\* new TextDecoder("utf-8").decode(bytes) on the ASCII range, where a byte is
\* one character; a byte of 128 or more is written U+FFFD (the model's inputs
\* hold no multi-byte sequences)
DecodeUtf8(bytes) ==
    IF bytes = <<>> THEN <<>>
    ELSE <<IF Head(bytes) < 128 THEN Head(bytes) ELSE 65533>> \o DecodeUtf8(Tail(bytes))

\* a character the regular expression's dot does not match
IsLineTerminator(c) == c \in {10, 13, 8232, 8233}

\* whether /\0.*$/ matches at index i: a NUL, then characters the dot matches
\* up to the end of the text
NulTailMatchesAt(s, i) ==
    s[i] = 0 /\ \A j \in (i + 1)..Len(s) : ~IsLineTerminator(s[j])

\* s.replace(/\0.*$/g, ""): the leftmost match runs to the end and is removed
ReplaceNulTail(s) ==
    LET Cut(starts) ==
            IF starts = {} THEN s
            ELSE SubSeq(s, 1, (CHOOSE i \in starts : \A j \in starts : i <= j) - 1)
    IN  Cut({i \in 1..Len(s) : NulTailMatchesAt(s, i)})

\* whether a property key is an array index ("0", "1", "2", ...): such keys
\* are enumerated first, in ascending order
IsIndexKey(k) ==
    /\ k # <<>>
    /\ \A i \in 1..Len(k) : k[i] >= 48 /\ k[i] <= 57
    /\ (Len(k) = 1 \/ k[1] # 48)

RECURSIVE InsertByKey(_, _)
InsertByKey(e, sorted) ==
    IF sorted = <<>> THEN <<e>>
    ELSE IF ParseInt(e.key, 10).n < ParseInt(Head(sorted).key, 10).n THEN <<e>> \o sorted
    ELSE <<Head(sorted)>> \o InsertByKey(e, Tail(sorted))

RECURSIVE SortIndexKeys(_)
SortIndexKeys(entries) ==
    IF entries = <<>> THEN <<>>
    ELSE InsertByKey(Head(entries), SortIndexKeys(Tail(entries)))

\* Object.entries(mapping) of a mapping written as the sequence of its
\* [key, value] members (keys distinct): index keys ascending, then the other
\* keys in the order written
ObjectEntries(mapping) ==
    SortIndexKeys(SelectSeq(mapping, LAMBDA e : IsIndexKey(e.key)))
        \o SelectSeq(mapping, LAMBDA e : ~IsIndexKey(e.key))

\* a decoder that reads every key as decimal: parseInt(key, 10)
KeyIntegerDecimal(key) == ParseInt(key, 10)

\* the key of an enum mapping read as hex / bin / dec: [nan, n]
KeyInteger(key) ==
    IF StartsWith(key, <<48, 120>>) THEN ParseInt(SliceFrom(key, 2), 16)
    ELSE IF StartsWith(key, <<48, 98>>) THEN ParseInt(SliceFrom(key, 2), 2)
    ELSE ParseInt(key, 10)

\* the comparison of one mapping entry with the field: [err, match]
EnumKeyMatches(bytes, keyInteger, endianness) ==
    IF Len(bytes) = 1
    THEN [err |-> NoError, match |-> ~keyInteger.nan /\ bytes[1] = keyInteger.n]
    ELSE IF Len(bytes) = 2
    THEN [err |-> NoError,
          match |-> ~keyInteger.nan /\ SetGetUint16(keyInteger.n) = keyInteger.n]
    ELSE IF Len(bytes) = 4
    THEN [err |-> NoError, match |-> ~keyInteger.nan /\ SetGetUint32Same(keyInteger.n)]
    ELSE [err |-> Err("DecodeError", "Unsupported byte length for mapping", <<>>),
          match |-> FALSE]

RECURSIVE EnumLoop(_, _, _, _)
\* the loop over Object.entries(parser.mapping): [err, value]
EnumLoop(entries, i, bytes, endianness) ==
    IF i > Len(entries)
    THEN [err |-> Err("DecodeError", "not found in enum mapping", <<>>), value |-> Undefined]
    ELSE LET Matched(m) ==
                 IF IsError(m.err) THEN [err |-> m.err, value |-> Undefined]
                 ELSE IF m.match THEN [err |-> NoError, value |-> entries[i].value]
                 ELSE EnumLoop(entries, i + 1, bytes, endianness)
         IN  Matched(EnumKeyMatches(bytes, KeyInteger(entries[i].key), endianness))

\* the endpoint branch of parseFieldValue, for 21 bytes
EndpointString(bytes, endianness) ==
    LET typePrefix(type) ==
            IF type = 0 THEN <<64>> ELSE IF type = 1 THEN <<64, 43>> ELSE <<64, 64>>
        instanceString(instance) ==
            IF instance = 0 THEN <<>>
            ELSE IF instance = 65535 THEN <<42>>
            ELSE NumberToString(instance)
        id(idBytes) ==
            IF \A i \in 1..Len(idBytes) : idBytes[i] = 0
            THEN <<108, 111, 99, 97, 108>>
            ELSE ReplaceNulTail(DecodeUtf8(idBytes))
        suffix(instance) ==
            IF instance # 0 THEN <<47>> \o instanceString(instance) ELSE <<>>
    IN  typePrefix(bytes[1]) \o id(Slice(bytes, 1, 19))
            \o suffix(getUint16(Slice(bytes, 19, 21), endianness))

RECURSIVE BytesToValues(_)
\* [...bytes]
BytesToValues(bytes) ==
    IF bytes = <<>> THEN <<>> ELSE <<Num(Head(bytes))>> \o BytesToValues(Tail(bytes))

\* The functions callers register: "double" maps the bytes to twice their
\* number, "size" to the text size<n>, "first" to the first byte (0 when none)
ApplyCustomParser(fn, bytes) ==
    IF fn = "double" THEN Num(Len(bytes) * 2)
    ELSE IF fn = "size" THEN Str(<<115, 105, 122, 101, 60>> \o NumberToString(Len(bytes)) \o <<62>>)
    ELSE Num(IF bytes = <<>> THEN 0 ELSE bytes[1])

\* new Map(): no name has an entry
EmptyRegistry == [name \in {} |-> ""]

\* CUSTOM_PARSERS.get(name): "" (for undefined) when the Map has no entry
RegistryGet(registry, name) == IF name \in DOMAIN registry THEN registry[name] ELSE ""

\* CUSTOM_PARSERS.set(name, parser)
RegistrySet(registry, name, fn) ==
    [n \in DOMAIN registry \cup {name} |-> IF n = name THEN fn ELSE registry[n]]

\* an unregisterCustomParser that leaves the Map as it is
RegistryDeleteNothing(registry, name) == registry

\* CUSTOM_PARSERS.delete(name)
RegistryDelete(registry, name) ==
    [n \in DOMAIN registry \ {name} |-> registry[n]]

\* parseFieldValue(bytes, parser, endianness): [err, value]
parseFieldValue(bytes, parser, endianness) ==
    IF parser.type = "boolean"
    THEN IF Len(bytes) # 1
         THEN [err |-> Err("DecodeError", "Invalid byte length for boolean", <<>>), value |-> Undefined]
         ELSE [err |-> NoError, value |-> Bool(bytes[1] # 0)]
    ELSE IF parser.type = "uint"
    THEN LET Number(r) == [err |-> r.err, value |-> Num(r.n)]
         IN  Number(uint8ArrayToNumberLE(bytes))
    ELSE IF parser.type = "int"
    THEN IF Len(bytes) = 1 THEN [err |-> NoError, value |-> Num(bytes[1])]
         ELSE IF Len(bytes) = 2 THEN [err |-> NoError, value |-> Num(getInt16(bytes, endianness))]
         ELSE IF Len(bytes) = 4 THEN [err |-> NoError, value |-> Num(getInt32(bytes, endianness))]
         ELSE [err |-> Err("DecodeError", "Unsupported byte length for signed integer", <<>>),
               value |-> Undefined]
    ELSE IF parser.type = "float"
    THEN IF Len(bytes) \in {4, 8}
         THEN [err |-> NoError,
               value |-> Flt(IF endianness = "little"
                             THEN [i \in 1..Len(bytes) |-> bytes[Len(bytes) + 1 - i]]
                             ELSE bytes)]
         ELSE [err |-> Err("DecodeError", "Unsupported byte length for float", <<>>),
               value |-> Undefined]
    ELSE IF parser.type = "string"
    THEN [err |-> NoError, value |-> Str(DecodeUtf8(bytes))]
    ELSE IF parser.type = "enum"
    THEN EnumLoop(ObjectEntries(parser.mapping), 1, bytes, endianness)
    ELSE IF parser.type = "endpoint"
    THEN IF Len(bytes) # 21
         THEN [err |-> Err("DecodeError", "Invalid byte length for endpoint", <<>>), value |-> Undefined]
         ELSE [err |-> NoError, value |-> Str(EndpointString(bytes, endianness))]
    ELSE IF parser.type = "pointer"
    THEN IF Len(bytes) # 26
         THEN [err |-> Err("DecodeError", "Invalid byte length for pointer", <<>>), value |-> Undefined]
         ELSE [err |-> NoError, value |-> Str(<<36>> \o HexString(bytes))]
    ELSE IF parser.type = "custom"
    THEN LET Registered(customParser) ==
                 IF customParser = ""
                 THEN [err |-> Err("DecodeError", "Custom parser not found", <<parser.name>>),
                       value |-> Undefined]
                 ELSE [err |-> NoError, value |-> ApplyCustomParser(customParser, bytes)]
         IN  Registered(RegistryGet(CUSTOM_PARSERS, parser.name))
    ELSE IF parser.type = "hex"
    THEN [err |-> NoError, value |-> Str(HexString(bytes))]
    ELSE IF parser.type = "array"
    THEN [err |-> NoError, value |-> List(BytesToValues(bytes))]
    ELSE [err |-> Err("SchemaError", "Unknown parser type", <<>>), value |-> Undefined]

----------------------------------------------------------------------------
(* Definitions and parsed fields *)

NoId == ""
NoParser == [type |-> "none"]
NoRepeat == [t |-> "none"]
RepeatNumber(n) == [t |-> "number", n |-> n]
RepeatId(id) == [t |-> "id", id |-> id]
\* a literal repeat that is not an integer, by the bytes of its float64
RepeatFloat(bytes) == [t |-> "float", bytes |-> bytes]
NoCondition == [t |-> "none"]
NoAssertion == [t |-> "none"]
AssertIs(v) == [t |-> "is", is |-> v]

\* fieldDef.repeat as a condition: a number other than 0, or a non-empty string
RepeatIsTruthy(repeat) ==
    \/ repeat.t = "number" /\ repeat.n # 0
    \/ repeat.t = "id" /\ repeat.id # ""
    \/ repeat.t = "float" /\ FloatIsTruthy(repeat.bytes)

\* a ParsedField: id is NoId when the object has no id key; hasValue says
\* whether it has a parsedValue key, hasSub whether it has a subFields key
ParsedField(id, name, bytes, hasValue, parsedValue, hasSub, subFields) ==
    [id |-> id, name |-> name, bytes |-> bytes, hasValue |-> hasValue,
     parsedValue |-> parsedValue, hasSub |-> hasSub, subFields |-> subFields]

NullField == ParsedField(NoId, "", <<>>, FALSE, Undefined, FALSE, <<>>)

RECURSIVE findFieldById(_, _), findFieldByIdInLists(_, _)
\* a search that goes through the fields from the last to the first
findFieldByIdFromTheEnd(id, fields) ==
    IF fields = <<>> THEN [found |-> FALSE, field |-> NullField]
    ELSE LET field == fields[Len(fields)]
             inSub == IF field.hasSub
                      THEN findFieldByIdInLists(id, field.subFields)
                      ELSE [found |-> FALSE, field |-> NullField]
         IN  IF field.id # NoId /\ field.id = id THEN [found |-> TRUE, field |-> field]
             ELSE IF inSub.found THEN inSub
             ELSE findFieldById(id, SubSeq(fields, 1, Len(fields) - 1))

\* findFieldById(id, fields): [found, field], depth first in parse order
findFieldById(id, fields) ==
    IF fields = <<>> THEN [found |-> FALSE, field |-> NullField]
    ELSE LET field == Head(fields)
             inSub == IF field.hasSub
                      THEN findFieldByIdInLists(id, field.subFields)
                      ELSE [found |-> FALSE, field |-> NullField]
         IN  IF field.id # NoId /\ field.id = id THEN [found |-> TRUE, field |-> field]
             ELSE IF inSub.found THEN inSub
             ELSE findFieldById(id, Tail(fields))

\* the inner loop of findFieldById over field.subFields, a list of field lists
findFieldByIdInLists(id, lists) ==
    IF lists = <<>> THEN [found |-> FALSE, field |-> NullField]
    ELSE LET subField == findFieldById(id, Head(lists))
         IN  IF subField.found THEN subField ELSE findFieldByIdInLists(id, Tail(lists))

RECURSIVE checkFieldCondition(_, _)
\* checkFieldCondition(parsedSection, condition), for the condition shapes the
\* code knows
checkFieldCondition(section, condition) ==
    IF condition.t = "equals"
    THEN LET f == findFieldById(condition.id, section.fields)
         IN  f.found /\ f.field.hasValue /\ StrictEquals(f.field.parsedValue, condition.value)
    ELSE IF condition.t = "lessThan"
    THEN LET f == findFieldById(condition.id, section.fields)
         IN  f.found /\ f.field.hasValue /\ f.field.parsedValue.t = "num"
             /\ f.field.parsedValue.v < condition.n
    ELSE IF condition.t = "greaterThan"
    THEN LET f == findFieldById(condition.id, section.fields)
         IN  f.found /\ f.field.hasValue /\ f.field.parsedValue.t = "num"
             /\ f.field.parsedValue.v > condition.n
    ELSE IF condition.t = "includes"
    THEN LET f == findFieldById(condition.id, section.fields)
         IN  f.found /\ f.field.hasValue /\ f.field.parsedValue.t # "undef"
             /\ \E i \in 1..Len(condition.list) :
                    StrictEquals(condition.list[i], f.field.parsedValue)
    ELSE IF condition.t = "not"
    THEN ~checkFieldCondition(section, condition.c)
    ELSE IF condition.t = "and"
    THEN \A i \in 1..Len(condition.cs) : checkFieldCondition(section, condition.cs[i])
    ELSE IF condition.t = "or"
    THEN \E i \in 1..Len(condition.cs) : checkFieldCondition(section, condition.cs[i])
    ELSE FALSE

\* the comparison of assertCondition: JSON.stringify(a) === JSON.stringify(b)
SameJSON(a, b) == JSONStringify(a) = JSONStringify(b)

\* assertCondition on the field of a field that is not repeated
assertConditionOne(field, condition) ==
    field.hasValue /\ SameJSON(field.parsedValue, condition.is)

\* assertCondition on the fields of a repeated field: is[index] when is is an
\* array (undefined beyond its end), is itself otherwise
assertConditionEvery(fields, condition) ==
    \A index \in 1..Len(fields) :
        /\ fields[index].hasValue
        /\ SameJSON(fields[index].parsedValue,
                    IF condition.is.t = "list"
                    THEN (IF index <= Len(condition.is.v) THEN condition.is.v[index] ELSE Undefined)
                    ELSE condition.is)

RECURSIVE BinaryStrings(_)
\* [...bitData].map((b) => b.toString(2)).join("")
BinaryStrings(bytes) ==
    IF bytes = <<>> THEN <<>> ELSE BinaryString(Head(bytes)) \o BinaryStrings(Tail(bytes))

\* mask.length ?? 1
MaskLength(mask) == IF mask.hasLength THEN mask.length ELSE 1

RECURSIVE parseBitMasksLoop(_, _, _, _, _, _)
\* the loop of parseBitMasks over the masks, the BitReader's cursor at bitOffset
parseBitMasksLoop(bytes, bitMasks, endianness, k, bitOffset, results) ==
    IF k > Len(bitMasks) THEN [err |-> NoError, fields |-> results]
    ELSE LET mask == bitMasks[k]
             Push(bitData, decoded) ==
                 IF IsError(decoded.err) THEN [err |-> decoded.err, fields |-> <<>>]
                 ELSE parseBitMasksLoop(bytes, bitMasks, endianness, k + 1, bitData.bitOffset,
                          Append(results, ParsedField(mask.id, mask.name, bitData.bytes,
                                                      TRUE, decoded.value, FALSE, <<>>)))
             Decode(bitData) ==
                 IF IsError(bitData.err) THEN [err |-> bitData.err, fields |-> <<>>]
                 ELSE IF mask.parser.type # "none"
                 THEN Push(bitData, parseFieldValue(bitData.bytes, mask.parser, endianness))
                 ELSE Push(bitData, [err |-> NoError, value |-> Str(BinaryStrings(bitData.bytes))])
         IN  Decode(readBits(bytes, bitOffset, MaskLength(mask)))

\* parseBitMasks(bytes, bitMasks, endianness): [err, fields]
parseBitMasks(bytes, bitMasks, endianness) ==
    parseBitMasksLoop(bytes, bitMasks, endianness, 1, 0, <<>>)

----------------------------------------------------------------------------
(* parseField *)

\* "subFields" in fieldDef && fieldDef.subFields
IsNested(fieldDef) == fieldDef.kind = "nested"
\* "bitMasks" in fieldDef
IsBitMasked(fieldDef) == fieldDef.kind = "bitmask"

\* a repeat resolution that takes only literal counts and reads a reference
\* as one pass
ResolveRepeatIgnoresReference(fieldDef, section, path) ==
    IF fieldDef.repeat.t = "number" /\ fieldDef.repeat.n # 0
    THEN [err |-> NoError, count |-> Num(fieldDef.repeat.n)]
    ELSE [err |-> NoError, count |-> Num(1)]

RECURSIVE FieldsOfSections(_)
\* the fields of every section of a parsed structure
FieldsOfSections(struct) ==
    IF struct = <<>> THEN <<>> ELSE Head(struct).fields \o FieldsOfSections(Tail(struct))

\* a repeat resolution that looks the id up in the sections parsed before as well
ResolveRepeatAcrossSections(fieldDef, section, path) ==
    IF ~RepeatIsTruthy(fieldDef.repeat) THEN [err |-> NoError, count |-> Num(1)]
    ELSE IF fieldDef.repeat.t = "number" THEN [err |-> NoError, count |-> Num(fieldDef.repeat.n)]
    ELSE IF fieldDef.repeat.t = "float" THEN [err |-> NoError, count |-> Flt(fieldDef.repeat.bytes)]
    ELSE LET repeatField == findFieldById(fieldDef.repeat.id,
                                          FieldsOfSections(parsedStructure) \o section.fields)
         IN  IF ~repeatField.found
             THEN [err |-> Err("MissingReference", "Repeat field not found for field", path),
                   count |-> Num(0)]
             ELSE IF ~repeatField.field.hasValue \/ ~IsNumber(repeatField.field.parsedValue)
             THEN [err |-> Err("TypeMismatch", "Repeat field does not have a numeric parsed value", <<>>),
                   count |-> Num(0)]
             ELSE [err |-> NoError, count |-> repeatField.field.parsedValue]

\* a repeat resolution that takes a reference it cannot use as no repetition
ResolveRepeatForgiving(fieldDef, section, path) ==
    IF ~RepeatIsTruthy(fieldDef.repeat) THEN [err |-> NoError, count |-> Num(1)]
    ELSE IF fieldDef.repeat.t = "number" THEN [err |-> NoError, count |-> Num(fieldDef.repeat.n)]
    ELSE IF fieldDef.repeat.t = "float" THEN [err |-> NoError, count |-> Flt(fieldDef.repeat.bytes)]
    ELSE LET repeatField == findFieldById(fieldDef.repeat.id, section.fields)
         IN  IF ~repeatField.found
             THEN [err |-> NoError, count |-> Num(0)]
             ELSE IF ~repeatField.field.hasValue \/ ~IsNumber(repeatField.field.parsedValue)
             THEN [err |-> NoError, count |-> Num(1)]
             ELSE [err |-> NoError, count |-> repeatField.field.parsedValue]

\* the repeat resolution of parseField: [err, count], count the number
\* repeatCount holds
ResolveRepeat(fieldDef, section, path) ==
    IF ~RepeatIsTruthy(fieldDef.repeat) THEN [err |-> NoError, count |-> Num(1)]
    ELSE IF fieldDef.repeat.t = "number" THEN [err |-> NoError, count |-> Num(fieldDef.repeat.n)]
    ELSE IF fieldDef.repeat.t = "float" THEN [err |-> NoError, count |-> Flt(fieldDef.repeat.bytes)]
    ELSE LET repeatField == findFieldById(fieldDef.repeat.id, section.fields)
         IN  IF ~repeatField.found
             THEN [err |-> Err("MissingReference", "Repeat field not found for field", path),
                   count |-> Num(0)]
             ELSE IF ~repeatField.field.hasValue \/ ~IsNumber(repeatField.field.parsedValue)
             THEN [err |-> Err("TypeMismatch", "Repeat field does not have a numeric parsed value", <<>>),
                   count |-> Num(0)]
             ELSE [err |-> NoError, count |-> repeatField.field.parsedValue]

\* the parsedValue of a field with an optional parser: [err, value]
OptionalValue(bytes, parser, endianness) ==
    IF parser.type # "none" THEN parseFieldValue(bytes, parser, endianness)
    ELSE [err |-> NoError, value |-> Undefined]

RECURSIVE parseField(_, _, _, _, _, _), parseSubFields(_, _, _, _, _, _, _, _),
          parseIteration(_, _, _, _, _, _), parseIterations(_, _, _, _, _, _, _, _, _)

\* fieldDef.subFields.map((subField) => parseField(...)): [err, lists, reader]
parseSubFields(sectionDef, subDefs, k, rd, section, endianness, path, lists) ==
    IF k > Len(subDefs) THEN [err |-> NoError, lists |-> lists, reader |-> rd]
    ELSE LET Push(r) ==
                 IF IsError(r.err) THEN [err |-> r.err, lists |-> <<>>, reader |-> r.reader]
                 ELSE parseSubFields(sectionDef, subDefs, k + 1, r.reader, section, endianness,
                                     path, Append(lists, r.fields))
         IN  Push(parseField(sectionDef, subDefs[k], rd, section, endianness,
                             Append(path, subDefs[k].name)))

\* one pass of the body of the for loop: [err, field, reader]
parseIteration(sectionDef, fieldDef, rd, section, endianness, path) ==
    LET Failed(err, r) == [err |-> err, field |-> NullField, reader |-> r]
        \* "subFields" in fieldDef && fieldDef.subFields
        NestedField(peeked, subs, decoded) ==
            IF IsError(decoded.err) THEN Failed(decoded.err, subs.reader)
            ELSE [err |-> NoError,
                  field |-> ParsedField(fieldDef.id, fieldDef.name, peeked.bytes, TRUE,
                                        decoded.value, TRUE, subs.lists),
                  reader |-> subs.reader]
        NestedValue(peeked, subs) ==
            IF IsError(subs.err) THEN Failed(subs.err, subs.reader)
            ELSE NestedField(peeked, subs,
                             OptionalValue(peeked.bytes, fieldDef.parser, endianness))
        NestedSubs(peeked) ==
            IF IsError(peeked.err) THEN Failed(peeked.err, rd)
            ELSE NestedValue(peeked,
                             parseSubFields(sectionDef, fieldDef.subFields, 1, peeked.reader,
                                            section, endianness, path, <<>>))
        \* "bitMasks" in fieldDef
        BitMaskedField(read, masks) ==
            IF IsError(masks.err) THEN Failed(masks.err, read.reader)
            ELSE [err |-> NoError,
                  field |-> ParsedField(fieldDef.id, fieldDef.name, read.bytes, FALSE,
                                        Undefined, TRUE, <<masks.fields>>),
                  reader |-> read.reader]
        \* a leaf
        LeafField(read, decoded) ==
            IF IsError(decoded.err) THEN Failed(decoded.err, read.reader)
            ELSE [err |-> NoError,
                  field |-> ParsedField(fieldDef.id, fieldDef.name, read.bytes, TRUE,
                                        decoded.value, FALSE, <<>>),
                  reader |-> read.reader]
        Read(read) ==
            IF IsError(read.err) THEN Failed(read.err, rd)
            ELSE IF IsBitMasked(fieldDef)
            THEN BitMaskedField(read, parseBitMasks(read.bytes, fieldDef.bitMasks, endianness))
            ELSE LeafField(read, OptionalValue(read.bytes, fieldDef.parser, endianness))
    IN  IF IsNested(fieldDef)
        THEN NestedSubs(peekBytes(rd, fieldDef.byteSize, path))
        ELSE Read(readBytes(rd, fieldDef.byteSize, path))

\* for (let i = 0; i < repeatCount; i++): [err, fields, reader]
parseIterations(sectionDef, fieldDef, rd, section, endianness, path, i, repeatCount, parsedFields) ==
    IF ~IndexBelow(i, repeatCount) THEN [err |-> NoError, fields |-> parsedFields, reader |-> rd]
    ELSE LET Push(r) ==
                 IF IsError(r.err) THEN [err |-> r.err, fields |-> <<>>, reader |-> r.reader]
                 ELSE parseIterations(sectionDef, fieldDef, r.reader, section, endianness, path,
                                      i + 1, repeatCount, Append(parsedFields, r.field))
         IN  Push(parseIteration(sectionDef, fieldDef, rd, section, endianness, path))

\* a gate that never skips
ConditionNeverUnmet(fieldDef, section) == FALSE

\* a gate without the negation: if (fieldDef.if && checkFieldCondition(...))
ConditionMet(fieldDef, section) ==
    fieldDef.if.t # "none" /\ checkFieldCondition(section, fieldDef.if)

\* if (fieldDef.if && !checkFieldCondition(parsedSection, fieldDef.if))
ConditionUnmet(fieldDef, section) ==
    fieldDef.if.t # "none" /\ ~checkFieldCondition(section, fieldDef.if)

\* a check after the loop that compares only the fields of a repeated field
AssertionFailsWhenRepeated(fieldDef, parsedFields) ==
    /\ fieldDef.assert.t # "none"
    /\ RepeatIsTruthy(fieldDef.repeat)
    /\ ~assertConditionEvery(parsedFields, fieldDef.assert)

\* the check after the loop: whether parseField throws the assertion error
AssertionFails(fieldDef, parsedFields) ==
    /\ fieldDef.assert.t # "none"
    /\ IF RepeatIsTruthy(fieldDef.repeat)
       THEN ~assertConditionEvery(parsedFields, fieldDef.assert)
       ELSE ~assertConditionOne(parsedFields[1], fieldDef.assert)

\* a parseField that resolves the repeat before it looks at the condition
parseFieldResolvingFirst(sectionDef, fieldDef, rd, section, endianness, path) ==
    LET Checked(looped) ==
            IF IsError(looped.err) THEN looped
            ELSE IF AssertionFails(fieldDef, looped.fields)
            THEN [err |-> Err("AssertionFailed", "Assertion failed for field", path),
                  fields |-> <<>>, reader |-> looped.reader]
            ELSE looped
        Looped(repeat) ==
            IF IsError(repeat.err) THEN [err |-> repeat.err, fields |-> <<>>, reader |-> rd]
            ELSE IF ConditionUnmet(fieldDef, section)
            THEN [err |-> NoError, fields |-> <<>>, reader |-> rd]
            ELSE Checked(parseIterations(sectionDef, fieldDef, rd, section, endianness, path,
                                         0, repeat.count, <<>>))
    IN  Looped(ResolveRepeat(fieldDef, section, path))

\* parseField(sectionDef, fieldDef, reader, parsedSection, endianness, path):
\* [err, fields, reader]
parseField(sectionDef, fieldDef, rd, section, endianness, path) ==
    LET Checked(looped) ==
            IF IsError(looped.err) THEN looped
            ELSE IF AssertionFails(fieldDef, looped.fields)
            THEN [err |-> Err("AssertionFailed", "Assertion failed for field", path),
                  fields |-> <<>>, reader |-> looped.reader]
            ELSE looped
        Looped(repeat) ==
            IF IsError(repeat.err) THEN [err |-> repeat.err, fields |-> <<>>, reader |-> rd]
            ELSE Checked(parseIterations(sectionDef, fieldDef, rd, section, endianness, path,
                                         0, repeat.count, <<>>))
    IN  IF ConditionUnmet(fieldDef, section)
        THEN [err |-> NoError, fields |-> <<>>, reader |-> rd]
        ELSE Looped(ResolveRepeat(fieldDef, section, path))

\* convertStructureToBytes: the bytes of the top-level fields of every section
RECURSIVE FieldBytes(_)
FieldBytes(fields) ==
    IF fields = <<>> THEN <<>> ELSE Head(fields).bytes \o FieldBytes(Tail(fields))

RECURSIVE convertStructureToBytes(_)
convertStructureToBytes(struct) ==
    IF struct = <<>> THEN <<>>
    ELSE FieldBytes(Head(struct).fields) \o convertStructureToBytes(Tail(struct))

----------------------------------------------------------------------------
(* The packer *)

\* A JSON tree: a ParsedValue, null, an array, or an object written as the
\* sequence of its [key, value] members in insertion order
JNull == [t |-> "null", v |-> 0]
JList(items) == [t |-> "jlist", v |-> items]
JObj(entries) == [t |-> "obj", v |-> entries]

\* result[key] = value: an existing member keeps its place and takes the value
SetKey(entries, key, value) ==
    IF \E i \in 1..Len(entries) : entries[i].key = key
    THEN [i \in 1..Len(entries) |->
            IF entries[i].key = key THEN [key |-> key, value |-> value] ELSE entries[i]]
    ELSE Append(entries, [key |-> key, value |-> value])

\* the characters of the names the definitions use
NameText(name) ==
    CASE name = "S" -> <<83>>
      [] name = "T" -> <<84>>
      [] name = "count" -> <<99, 111, 117, 110, 116>>
      [] name = "item" -> <<105, 116, 101, 109>>
      [] name = "tail" -> <<116, 97, 105, 108>>
      [] name = "box" -> <<98, 111, 120>>
      [] name = "x" -> <<120>>
      [] name = "y" -> <<121>>
      [] name = "flags" -> <<102, 108, 97, 103, 115>>
      [] name = "first" -> <<102, 105, 114, 115, 116>>
      [] name = "second" -> <<115, 101, 99, 111, 110, 100>>
      [] name = "third" -> <<116, 104, 105, 114, 100>>
      [] name = "Sub Field" -> <<83, 117, 98, 32, 70, 105, 101, 108, 100>>
      [] name = "ID--2" -> <<73, 68, 45, 45, 50>>

\* c.toLowerCase() on the ASCII range
ToLowerCase(c) == IF c >= 65 /\ c <= 90 THEN c + 32 ELSE c

RECURSIVE ReplaceRuns(_, _)
\* s.replace(/[^a-z0-9]+/g, "_"): every run of other characters becomes one _
ReplaceRuns(s, inRun) ==
    IF s = <<>> THEN <<>>
    ELSE IF (Head(s) >= 97 /\ Head(s) <= 122) \/ (Head(s) >= 48 /\ Head(s) <= 57)
    THEN <<Head(s)>> \o ReplaceRuns(Tail(s), FALSE)
    ELSE (IF inRun THEN <<>> ELSE <<95>>) \o ReplaceRuns(Tail(s), TRUE)

RECURSIVE DropLeadingHyphens(_), DropTrailingHyphens(_)
DropLeadingHyphens(s) ==
    IF s # <<>> /\ Head(s) = 45 THEN DropLeadingHyphens(Tail(s)) ELSE s
DropTrailingHyphens(s) ==
    IF s # <<>> /\ s[Len(s)] = 45 THEN DropTrailingHyphens(SubSeq(s, 1, Len(s) - 1)) ELSE s

\* normalizeName(name), on the characters of the name
normalizeName(name) ==
    DropTrailingHyphens(DropLeadingHyphens(
        ReplaceRuns([i \in 1..Len(name) |-> ToLowerCase(name[i])], FALSE)))

\* a packer that keeps what is flagged
IsOmittedNever(def) == FALSE

\* def.usage === "omit"
IsOmitted(def) == def.usage = "omit"

\* list.find((f) => f.name === name), as a list of none or one
FindByName(list, name) ==
    LET First(hits) == IF hits = <<>> THEN <<>> ELSE <<hits[1]>>
    IN  First(SelectSeq(list, LAMBDA f : f.name = name))

RECURSIVE FirstsByName(_, _)
\* current.subFields.map((subFields) => subFields.find(...)).filter(defined)
FirstsByName(lists, name) ==
    IF lists = <<>> THEN <<>>
    ELSE FindByName(Head(lists), name) \o FirstsByName(Tail(lists), name)

RECURSIVE Flat(_)
\* current.subFields.flat()
Flat(lists) == IF lists = <<>> THEN <<>> ELSE Head(lists) \o Flat(Tail(lists))

RECURSIVE bitMasksToJSON(_, _, _, _)
\* the loop of parsedFieldToJSON over definition.bitMasks
bitMasksToJSON(field, bitMasks, k, result) ==
    IF k > Len(bitMasks) THEN result
    ELSE IF IsOmitted(bitMasks[k]) THEN bitMasksToJSON(field, bitMasks, k + 1, result)
    ELSE LET Put(found) ==
                 bitMasksToJSON(field, bitMasks, k + 1,
                     SetKey(result, normalizeName(NameText(bitMasks[k].name)),
                            IF found # <<>> /\ found[1].hasValue /\ found[1].parsedValue.t # "undef"
                            THEN found[1].parsedValue ELSE JNull))
         IN  Put(FindByName(Flat(field.subFields), bitMasks[k].name))

RECURSIVE parsedFieldsToJSON(_, _), parsedFieldToJSON(_, _), MapFieldsToJSON(_, _, _),
          subFieldsToJSON(_, _, _, _)

\* fields.map((f) => parsedFieldToJSON(f, definition))
MapFieldsToJSON(fields, def, i) ==
    IF i > Len(fields) THEN <<>>
    ELSE <<parsedFieldToJSON(fields[i], def)>> \o MapFieldsToJSON(fields, def, i + 1)

\* parsedFieldsToJSON(fields, definition)
parsedFieldsToJSON(fields, def) ==
    IF RepeatIsTruthy(def.repeat) THEN JList(MapFieldsToJSON(fields, def, 1))
    ELSE parsedFieldToJSON(fields[1], def)

\* the loop of parsedFieldToJSON over definition.subFields
subFieldsToJSON(field, subDefs, k, result) ==
    IF k > Len(subDefs) THEN result
    ELSE IF IsOmitted(subDefs[k]) THEN subFieldsToJSON(field, subDefs, k + 1, result)
    ELSE LET Put(parsedSubFields) ==
                 subFieldsToJSON(field, subDefs, k + 1,
                     SetKey(result, normalizeName(NameText(subDefs[k].name)),
                            IF parsedSubFields # <<>>
                            THEN parsedFieldsToJSON(parsedSubFields, subDefs[k]) ELSE JNull))
         IN  Put(FirstsByName(field.subFields, subDefs[k].name))

\* parsedFieldToJSON(field, definition)
parsedFieldToJSON(field, def) ==
    IF IsNested(def) THEN JObj(subFieldsToJSON(field, def.subFields, 1, <<>>))
    ELSE IF IsBitMasked(def) THEN JObj(bitMasksToJSON(field, def.bitMasks, 1, <<>>))
    ELSE IF field.hasValue
    THEN (IF field.parsedValue.t # "undef" THEN field.parsedValue
          ELSE Str(HexString(field.bytes)))
    ELSE JObj(<<>>)

RECURSIVE parsedSectionToJSON(_, _, _, _)
\* parsedSectionToJSON(section, definition): the loop over definition.fields
parsedSectionToJSON(section, fieldDefs, k, result) ==
    IF k > Len(fieldDefs) THEN result
    ELSE IF IsOmitted(fieldDefs[k]) THEN parsedSectionToJSON(section, fieldDefs, k + 1, result)
    ELSE LET Put(parsedFields) ==
                 parsedSectionToJSON(section, fieldDefs, k + 1,
                     SetKey(result, normalizeName(NameText(fieldDefs[k].name)),
                            IF parsedFields # <<>>
                            THEN parsedFieldsToJSON(parsedFields, fieldDefs[k]) ELSE JNull))
         IN  Put(SelectSeq(section.fields, LAMBDA f : f.name = fieldDefs[k].name))

RECURSIVE parsedStructureToJSONLoop(_, _, _, _)
\* the loop of parsedStructureToJSON over definition.sections; a section that
\* structure.find does not find is undefined, and reading its fields throws
parsedStructureToJSONLoop(structure, sectionDefs, k, result) ==
    IF k > Len(sectionDefs) THEN [err |-> NoError, json |-> JObj(result)]
    ELSE IF IsOmitted(sectionDefs[k])
    THEN parsedStructureToJSONLoop(structure, sectionDefs, k + 1, result)
    ELSE LET Put(found) ==
                 IF found = <<>>
                 THEN [err |-> Err("TypeError", "Cannot read properties of undefined", <<>>),
                       json |-> JNull]
                 ELSE parsedStructureToJSONLoop(structure, sectionDefs, k + 1,
                          SetKey(result, normalizeName(NameText(sectionDefs[k].name)),
                                 JObj(parsedSectionToJSON(found[1], sectionDefs[k].fields,
                                                          1, <<>>))))
         IN  Put(FindByName(structure, sectionDefs[k].name))

\* parsedStructureToJSON(structure, definition): [err, json]
parsedStructureToJSON(structure, def) ==
    parsedStructureToJSONLoop(structure, def.sections, 1, <<>>)

----------------------------------------------------------------------------
(* The calls as a state machine *)

\* definition.endian || "little"
Endianness(def) == IF def.endian = "" THEN "little" ELSE def.endian

\* parseSection: const parsedSection = { name: sectionDef.name, fields: [] }
NewSection(def, i) ==
    IF i <= Len(def.sections)
    THEN [name |-> def.sections[i].name, fields |-> <<>>]
    ELSE [name |-> "", fields |-> <<>>]

NoCall == [made |-> FALSE]
NoGenerated == [made |-> FALSE]
NoPacked == [made |-> FALSE]
NoLog == [op |-> "none", fn |-> ""]
NoBitReader == [data |-> <<>>, bitOffset |-> 0]

SectionDef == definition.sections[sectionIdx]
FieldDef == SectionDef.fields[fieldIdx]

\* the state in which parseStructureWithReader(def, rd) begins
BeginCall(ph, def, rd) ==
    /\ phase' = ph
    /\ definition' = def
    /\ reader' = rd
    /\ sectionIdx' = 1
    /\ fieldIdx' = 1
    /\ parsedSection' = NewSection(def, 1)
    /\ parsedStructure' = <<>>
    /\ status' = IF def.sections = <<>> THEN "done" ELSE "running"
    /\ error' = NoError
    /\ lastCall' = NoCall

\* a push that puts the new fields in front
PushFieldsInFront(fields, new) == new \o fields

\* parsedSection.fields.push(...fields)
PushFields(fields, new) == fields \o new

\* parseSection, one pass of its loop: parseField on the next top-level field
\* and the push of the fields it returns; an Error it throws ends the call
ParseField ==
    /\ status = "running"
    /\ fieldIdx <= Len(SectionDef.fields)
    /\ \E path \in {<<SectionDef.name, FieldDef.name>>} :
       \E r \in {parseField(SectionDef, FieldDef, reader, parsedSection,
                             Endianness(definition), path)} :
           /\ lastCall' = [made |-> TRUE, fieldDef |-> FieldDef, path |-> path,
                           section |-> parsedSection, offset |-> reader.offset,
                           ret |-> [err |-> r.err, fields |-> r.fields,
                                    offset |-> r.reader.offset]]
           /\ reader' = r.reader
           /\ IF IsError(r.err)
              THEN /\ status' = "failed"
                   /\ error' = r.err
                   /\ UNCHANGED <<parsedSection, fieldIdx>>
              ELSE /\ parsedSection' = [parsedSection EXCEPT !.fields = PushFields(@, r.fields)]
                   /\ fieldIdx' = fieldIdx + 1
                   /\ UNCHANGED <<status, error>>
    /\ UNCHANGED <<CUSTOM_PARSERS, registryLog, phase, definition, sectionIdx,
                   parsedStructure, generated, packed, bitReader>>

\* parseSection returns and sections.map goes on to the next section, or the
\* call returns the parsed structure
EndSection ==
    /\ status = "running"
    /\ fieldIdx > Len(SectionDef.fields)
    /\ parsedStructure' = Append(parsedStructure, parsedSection)
    /\ sectionIdx' = sectionIdx + 1
    /\ fieldIdx' = 1
    /\ parsedSection' = NewSection(definition, sectionIdx + 1)
    /\ status' = IF sectionIdx = Len(definition.sections) THEN "done" ELSE "running"
    /\ UNCHANGED <<CUSTOM_PARSERS, registryLog, phase, definition, reader, error,
                   lastCall, generated, packed, bitReader>>

\* the round-trip script: convertStructureToBytes(struct), then
\* parseStructure(definition, bytes)
Reparse ==
    /\ phase = "generate"
    /\ status = "done"
    /\ LET bytes == convertStructureToBytes(parsedStructure)
       IN  /\ generated' = [made |-> TRUE, struct |-> parsedStructure, bytes |-> bytes]
           /\ BeginCall("reparse", definition, DataReader(bytes))
    /\ UNCHANGED <<CUSTOM_PARSERS, registryLog, packed, bitReader>>

\* parseAndPackStructure: parseStructure has returned, and
\* parsedStructureToJSON packs what it returned
Pack ==
    /\ phase = "pack"
    /\ status = "done"
    /\ ~packed.made
    /\ \E r \in {parsedStructureToJSON(parsedStructure, definition)} :
           packed' = [made |-> TRUE, err |-> r.err, json |-> r.json]
    /\ UNCHANGED <<CUSTOM_PARSERS, registryLog, phase, definition, reader, sectionIdx,
                   fieldIdx, parsedSection, parsedStructure, status, error, lastCall,
                   generated, bitReader>>

----------------------------------------------------------------------------
(* The definitions and inputs the calls are made with *)

MaxHead == 6      \* the first byte of an input ranges over 0..MaxHead
MaxDataLen == 8   \* the bytes after the first: 1, 2, ..., up to this many
MaxRepeat == 3    \* literal repeat counts range over 0..MaxRepeat
MaxIdLen == 3     \* endpoint ids: this many free bytes, the rest zero
MaxDefaultTail == 2  \* defaults arrays: a number, then up to this many more
MaxNumberLen == 7 \* uint fields of 1..MaxNumberLen bytes, int fields of up to two less
MaxCount == 4     \* readBytes / peekBytes called directly ask for 0..MaxCount bytes
MaxBitCount == 9  \* readBits called directly asks for -2..MaxBitCount bits

Leaf(name, id, byteSize, parser) ==
    [kind |-> "leaf", name |-> name, id |-> id, byteSize |-> byteSize, parser |-> parser,
     repeat |-> NoRepeat, if |-> NoCondition, assert |-> NoAssertion, usage |-> "",
     subFields |-> <<>>, bitMasks |-> <<>>]
Nested(name, id, byteSize, subFields) ==
    [Leaf(name, id, byteSize, NoParser) EXCEPT !.kind = "nested", !.subFields = subFields]
BitMasked(name, id, byteSize, bitMasks) ==
    [Leaf(name, id, byteSize, NoParser) EXCEPT !.kind = "bitmask", !.bitMasks = bitMasks]
Mask(name, id, length, parser) ==
    [name |-> name, id |-> id, hasLength |-> TRUE, length |-> length, parser |-> parser,
     usage |-> ""]
Repeated(fieldDef, repeat) == [fieldDef EXCEPT !.repeat = repeat]
Omitted(def) == [def EXCEPT !.usage = "omit"]
OnlyIf(fieldDef, condition) == [fieldDef EXCEPT !.if = condition]
Asserted(fieldDef, v) == [fieldDef EXCEPT !.assert = AssertIs(v)]
Section(name, fields) == [name |-> name, fields |-> fields, usage |-> ""]
Structure(endian, sections) == [name |-> "TestStruct", endian |-> endian, sections |-> sections]
OneSection(endian, fields) == Structure(endian, <<Section("S", fields)>>)

Uint == [type |-> "uint"]
SignedInt == [type |-> "int"]
Hex == [type |-> "hex"]
Enum(mapping) == [type |-> "enum", mapping |-> mapping]
Entry(key, value) == [key |-> key, value |-> value]
Custom(name) == [type |-> "custom", name |-> name]
Equals(id, v) == [t |-> "equals", id |-> id, value |-> v]
LessThan(id, n) == [t |-> "lessThan", id |-> id, n |-> n]
Not(c) == [t |-> "not", c |-> c]
GreaterThan(id, n) == [t |-> "greaterThan", id |-> id, n |-> n]
Includes(id, list) == [t |-> "includes", id |-> id, list |-> list]
And(cs) == [t |-> "and", cs |-> cs]
Or(cs) == [t |-> "or", cs |-> cs]

\* the texts "A", "B", "C", "D" and the keys "0x01", "2", "0b11", "0x02", "10", "1"
TextA == <<65>>
TextB == <<66>>
TextC == <<67>>
TextD == <<68>>
Key0x01 == <<48, 120, 48, 49>>
Key2 == <<50>>
Key0b11 == <<48, 98, 49, 49>>
Key0x02 == <<48, 120, 48, 50>>
Key10 == <<49, 48>>
Key1 == <<49>>

\* { "0x01": "A", "2": "B" }
MappingAB == <<Entry(Key0x01, Str(TextA)), Entry(Key2, Str(TextB))>>
\* { "0b11": "C", "0x02": "A", "10": "D", "2": "B" }
MappingMixed == <<Entry(Key0b11, Str(TextC)), Entry(Key0x02, Str(TextA)),
                  Entry(Key10, Str(TextD)), Entry(Key2, Str(TextB))>>
\* { "1": "A", "2": "B" }
MappingWide == <<Entry(Key1, Str(TextA)), Entry(Key2, Str(TextB))>>

Tail1 == Leaf("tail", NoId, 1, Uint)
Count == Leaf("count", "n", 1, Uint)
Flag == Leaf("flag", "f", 1, Uint)

\* fields repeated by reference to the id n, after the field that carries it
RepeatRefCases ==
    << OneSection("", <<Count, Repeated(Leaf("item", NoId, 1, NoParser), RepeatId("n")), Tail1>>),
       OneSection("", <<Count, Repeated(Leaf("item", NoId, 2, Uint), RepeatId("n")), Tail1>>),
       OneSection("big", <<Count,
            Repeated(BitMasked("item", NoId, 1, <<Mask("hi", NoId, 4, NoParser),
                                                  Mask("lo", NoId, 4, Uint)>>), RepeatId("n")),
            Tail1>>),
       OneSection("", <<Count,
            Repeated(Nested("item", NoId, 2, <<Leaf("x", NoId, 1, Uint), Leaf("y", NoId, 1, NoParser)>>),
                     RepeatId("n")),
            Tail1>>),
       OneSection("", <<Nested("header", NoId, 1, <<Count>>),
            Repeated(Leaf("item", NoId, 1, Uint), RepeatId("n")), Tail1>>),
       OneSection("", <<BitMasked("header", NoId, 1, <<Mask("count", "n", 2, Uint),
                                                       Mask("rest", NoId, 6, NoParser)>>),
            Repeated(Leaf("item", NoId, 2, NoParser), RepeatId("n")), Tail1>>) >>

\* fields repeated a literal number of times, 0..MaxRepeat
RepeatLiteralCases ==
    [k \in 1..(MaxRepeat + 1) |->
        OneSection("", <<Leaf("head", NoId, 1, Uint),
                         Repeated(Leaf("item", NoId, 2, Uint), RepeatNumber(k - 1)), Tail1>>)]
    \o [k \in 1..(MaxRepeat + 1) |->
        OneSection("", <<Repeated(BitMasked("item", NoId, 1, <<Mask("bits", NoId, 8, Uint)>>),
                                  RepeatNumber(k - 1)), Tail1>>)]

\* conditions on the id zz, which no field carries, alone and with the id f
UnresolvedConditions ==
    << LessThan("zz", 9),
       GreaterThan("zz", 0),
       Includes("zz", <<Num(0), Num(1)>>),
       Not(Equals("zz", Num(0))),
       Not(GreaterThan("zz", 0)),
       And(<<Equals("f", Num(1)), Includes("zz", <<Num(1)>>)>>),
       Or(<<LessThan("zz", 9), Equals("f", Num(1))>>),
       Or(<<Equals("zz", Num(1)), GreaterThan("zz", 0)>>),
       Not(Or(<<Includes("zz", <<Num(0)>>), LessThan("zz", 9)>>)),
       And(<<Not(Equals("zz", Num(0))), GreaterThan("f", 1)>>) >>

\* fields behind a condition
ConditionCases ==
    << OneSection("", <<Flag, OnlyIf(Leaf("opt", NoId, 2, Uint), Equals("f", Num(1))), Tail1>>),
       OneSection("", <<Flag, OnlyIf(Leaf("opt", NoId, 1, NoParser), Not(LessThan("f", 2))), Tail1>>),
       OneSection("", <<Flag,
            Nested("box", NoId, 2, <<Leaf("a", NoId, 1, Uint),
                                     OnlyIf(Leaf("b", NoId, 1, Uint), Equals("f", Num(1))),
                                     Leaf("c", NoId, 1, Uint)>>),
            Tail1>>),
       OneSection("", <<Flag, OnlyIf(Repeated(Leaf("opt", NoId, 1, Uint), RepeatNumber(2)),
                                     Equals("f", Num(2))), Tail1>>),
       OneSection("", <<Flag, OnlyIf(BitMasked("opt", NoId, 1, <<Mask("bits", NoId, 8, Uint)>>),
                                     Equals("zz", Num(0))), Tail1>>) >>
    \o [k \in 1..Len(UnresolvedConditions) |->
            OneSection("", <<Flag, OnlyIf(Leaf("opt", NoId, 1, Uint), UnresolvedConditions[k]),
                             Tail1>>)]

\* fields with an assertion
AssertionCases ==
    << OneSection("", <<Asserted(Leaf("magic", NoId, 1, Uint), Num(5)), Tail1>>),
       OneSection("", <<Asserted(Leaf("magic", NoId, 1, Hex), Str(<<48, 53>>)), Tail1>>),
       OneSection("", <<Asserted(Leaf("magic", NoId, 1, Hex), Num(5)), Tail1>>),
       OneSection("", <<Asserted(Leaf("magic", NoId, 1, NoParser), Num(5)), Tail1>>),
       OneSection("", <<Flag, Asserted(Leaf("magic", "m", 2, Uint), Num(513)), Tail1>>),
       OneSection("", <<Nested("box", NoId, 1, <<Asserted(Leaf("magic", NoId, 1, Uint), Num(5))>>),
                        Tail1>>),
       OneSection("", <<Asserted(Leaf("kind", NoId, 1, Enum(MappingAB)), Str(TextB)), Tail1>>) >>

\* one field with an enum parser
EnumCases ==
    << OneSection("", <<Leaf("kind", NoId, 1, Enum(MappingAB)), Tail1>>),
       OneSection("", <<Leaf("kind", NoId, 1, Enum(MappingMixed)), Tail1>>),
       OneSection("", <<Leaf("kind", NoId, 2, Enum(MappingWide)), Tail1>>),
       OneSection("big", <<Leaf("kind", NoId, 2, Enum(MappingWide)), Tail1>>),
       OneSection("", <<Leaf("kind", NoId, 4, Enum(MappingWide)), Tail1>>),
       OneSection("big", <<Leaf("kind", NoId, 4, Enum(MappingAB)), Tail1>>),
       OneSection("", <<Leaf("kind", NoId, 3, Enum(MappingWide)), Tail1>>) >>

\* the 1-byte bit mask split 1, 3, 4, raw and decoded
BitMaskCases ==
    << OneSection("", <<BitMasked("flags", NoId, 1, <<Mask("first", NoId, 1, NoParser),
                                                      Mask("second", NoId, 3, NoParser),
                                                      Mask("third", NoId, 4, NoParser)>>)>>),
       OneSection("big", <<BitMasked("flags", NoId, 1, <<Mask("first", NoId, 1, Uint),
                                                         Mask("second", NoId, 3, Uint),
                                                         Mask("third", NoId, 4, Uint)>>)>>) >>

\* one field with the endpoint parser
Endpoint(byteSize) == Leaf("Endpoint", NoId, byteSize, [type |-> "endpoint"])
EndpointCases ==
    << OneSection("little", <<Endpoint(21)>>), OneSection("big", <<Endpoint(21)>>) >>
EndpointLengthCases ==
    << OneSection("", <<Endpoint(20)>>), OneSection("", <<Endpoint(22)>>) >>

\* the numbers 1, 2, ..., len
Ramp(len) == [i \in 1..len |-> i]

\* inputs: a first byte, then a ramp
RampInputs == {<<h>> \o Ramp(len) : h \in 0..MaxHead, len \in 0..MaxDataLen}

\* inputs: every single byte
ByteInputs == {<<b>> : b \in 0..255}

\* the bytes j, o, n, a, s
Jonas == <<106, 111, 110, 97, 115>>

\* ids of 18 bytes: NUL, line feed, j and o in the first MaxIdLen places, and jonas
EndpointIds ==
    {[i \in 1..18 |-> IF i <= MaxIdLen THEN f[i] ELSE 0] : f \in [1..MaxIdLen -> {0, 10, 106, 111}]}
        \cup {Jonas \o Zeros(13)}

\* endpoints: a type byte, an id, an instance
EndpointInputs ==
    {<<type>> \o id \o instance :
        type \in 0..3, id \in EndpointIds,
        instance \in {<<0, 0>>, <<1, 0>>, <<0, 1>>, <<255, 255>>, <<44, 1>>}}

EndpointLengthInputs == {Zeros(n) : n \in 19..23}

\* inputs for a number field of n bytes: every combination of the bytes 0, 1,
\* 0x80 and 0xFF up to 4 bytes; beyond, four heads and tails of 0 and 1
NumberInputs(n) ==
    IF n <= 4 THEN [1..n -> {0, 1, 128, 255}]
    ELSE {head \o tail :
            head \in {<<0, 0, 0, 0>>, <<1, 2, 3, 4>>, <<255, 255, 255, 127>>, <<0, 0, 0, 128>>},
            tail \in [1..(n - 4) -> {0, 1}]}

Case(def, inputs) == [def |-> def, inputs |-> inputs]

WithInputs(defs, inputs) == [i \in 1..Len(defs) |-> Case(defs[i], inputs)]

\* one field with the uint or the int parser, in both endiannesses
NumberCases ==
    [n \in 1..MaxNumberLen |->
        Case(OneSection("", <<Leaf("value", NoId, n, Uint)>>), NumberInputs(n))]
    \o [n \in 1..MaxNumberLen |->
        Case(OneSection("big", <<Leaf("value", NoId, n, Uint)>>), NumberInputs(n))]
    \o [n \in 1..(MaxNumberLen - 2) |->
        Case(OneSection("", <<Leaf("value", NoId, n, SignedInt)>>), NumberInputs(n))]
    \o [n \in 1..(MaxNumberLen - 2) |->
        Case(OneSection("big", <<Leaf("value", NoId, n, SignedInt)>>), NumberInputs(n))]

\* the calls parseStructure(def, bytes) of the specification Spec
ParseCases ==
    WithInputs(RepeatRefCases, RampInputs) \o WithInputs(RepeatLiteralCases, RampInputs)
        \o WithInputs(ConditionCases, RampInputs) \o WithInputs(AssertionCases, RampInputs)
        \o WithInputs(EnumCases, RampInputs) \o WithInputs(BitMaskCases, ByteInputs)
        \o WithInputs(EndpointCases, EndpointInputs)
        \o WithInputs(EndpointLengthCases, EndpointLengthInputs)
        \o NumberCases

\* a container of two children, one raw
Box(y) == Nested("box", NoId, 2, <<Leaf("x", NoId, 1, Uint), y>>)
\* the 1-byte bit mask split 1, 3, 4
Flags(second) ==
    BitMasked("flags", NoId, 1, <<Mask("first", NoId, 1, Uint), second,
                                  Mask("third", NoId, 4, Uint)>>)
Item == Leaf("item", NoId, 1, Uint)

\* definitions for parseAndPackStructure: repeated fields at the top and
\* inside a Nested field, names that normalizeName changes, and fields, masks
\* and sections flagged omit
PackDefs ==
    << OneSection("", <<Count, Repeated(Item, RepeatId("n")), Tail1>>),
       OneSection("", <<Count, Omitted(Repeated(Item, RepeatId("n"))), Tail1>>),
       OneSection("", <<Count, Repeated(Box(Leaf("y", NoId, 1, NoParser)), RepeatId("n")), Tail1>>),
       OneSection("", <<Omitted(Count),
                        Repeated(Box(Omitted(Leaf("y", NoId, 1, NoParser))), RepeatId("n")),
                        Tail1>>),
       OneSection("", <<Count,
                        Nested("box", NoId, 1, <<Repeated(Item, RepeatId("n")),
                                                 Leaf("Sub Field", NoId, 1, Hex)>>),
                        Tail1>>),
       OneSection("", <<Nested("box", NoId, 1, <<Repeated(Item, RepeatNumber(2)),
                                                 Omitted(Leaf("Sub Field", NoId, 1, Hex))>>),
                        Omitted(Tail1)>>),
       OneSection("big", <<Flags(Mask("second", NoId, 3, NoParser)),
                           Leaf("ID--2", NoId, 2, NoParser)>>),
       OneSection("big", <<Flags(Omitted(Mask("second", NoId, 3, NoParser))),
                           Leaf("ID--2", NoId, 2, NoParser)>>),
       OneSection("", <<Repeated(Item, RepeatNumber(2)), Omitted(Leaf("Sub Field", NoId, 1, Hex)),
                        Tail1>>),
       Structure("", <<Section("S", <<Count>>),
                       Omitted(Section("T", <<Leaf("item", NoId, 2, Uint), Omitted(Tail1)>>))>>),
       Structure("", <<Omitted(Section("S", <<Count>>)),
                       Section("T", <<Repeated(Item, RepeatId("n")), Tail1>>)>>),
       OneSection("", <<Count,
                        Repeated(Nested("box", NoId, 1,
                                        <<OnlyIf(Leaf("x", NoId, 1, Uint), Equals("n", Num(1)))>>),
                                 RepeatNumber(2)),
                        Tail1>>) >>

\* inputs: a first byte, then 11, 12, ..., so that no byte occurs twice
DistinctInputs == {<<h>> \o [i \in 1..len |-> 10 + i] : h \in 0..MaxHead, len \in 0..MaxDataLen}

Float == [type |-> "float"]
Boolean == [type |-> "boolean"]
Opt == Leaf("opt", NoId, 1, Uint)

\* children that refer to the id of an earlier child of their container, and
\* iterations of a repeated container that refer to an id of the iteration before
SiblingCases ==
    << OneSection("", <<Nested("box", NoId, 2, <<Count, Repeated(Item, RepeatId("n"))>>), Tail1>>),
       OneSection("", <<Nested("box", NoId, 2, <<Flag, OnlyIf(Opt, Equals("f", Num(1)))>>), Tail1>>),
       OneSection("", <<Repeated(Nested("box", NoId, 1, <<OnlyIf(Opt, Equals("f", Num(1))), Flag>>),
                                 RepeatNumber(2)),
                        Tail1>>),
       OneSection("", <<Repeated(Nested("box", NoId, 1,
                                        <<OnlyIf(Repeated(Item, RepeatId("n")), Equals("n", Num(1))),
                                          Count>>),
                                 RepeatNumber(2)),
                        Tail1>>) >>

\* references across sections and to fields later in the section
SectionScopeCases ==
    << Structure("", <<Section("S", <<Count>>),
                       Section("T", <<Repeated(Item, RepeatId("n")), Tail1>>)>>),
       Structure("", <<Section("S", <<Flag>>),
                       Section("T", <<OnlyIf(Opt, Equals("f", Num(1))), Tail1>>)>>),
       Structure("", <<Section("S", <<Count, Flag>>),
                       Section("T", <<Count, Flag, Repeated(Item, RepeatId("n")),
                                      OnlyIf(Opt, Equals("f", Num(3)))>>)>>),
       OneSection("", <<Repeated(Item, RepeatId("n")), Count>>),
       OneSection("", <<OnlyIf(Opt, Equals("f", Num(1))), Flag, Tail1>>),
       OneSection("", <<Count, OnlyIf(Opt, Not(LessThan("f", 2))), Flag>>) >>

\* repeats by reference to an id that no field carries and to fields without
\* a numeric value: raw bytes, a string, a boolean, a bit mask container, a
\* raw mask
RepeatErrorCases ==
    << OneSection("", <<Flag, Repeated(Item, RepeatId("zz")), Tail1>>),
       OneSection("", <<Leaf("count", "n", 1, NoParser), Repeated(Item, RepeatId("n")), Tail1>>),
       OneSection("", <<Leaf("count", "n", 1, Hex), Repeated(Item, RepeatId("n")), Tail1>>),
       OneSection("", <<Leaf("count", "n", 1, Boolean), Repeated(Item, RepeatId("n")), Tail1>>),
       OneSection("", <<BitMasked("count", "n", 1, <<Mask("bits", NoId, 8, Uint)>>),
                        Repeated(Item, RepeatId("n")), Tail1>>),
       OneSection("", <<BitMasked("head", NoId, 1, <<Mask("count", "n", 8, NoParser)>>),
                        Repeated(Box(Leaf("y", NoId, 1, NoParser)), RepeatId("n")), Tail1>>) >>

\* 1.5 and -2.5 as float64, most significant byte first
OneAndAHalf == <<63, 248, 0, 0, 0, 0, 0, 0>>
MinusTwoAndAHalf == <<192, 4, 0, 0, 0, 0, 0, 0>>

\* inputs that begin with a 2-byte int: -1, -2, 2, -32768, then a ramp
SignedCountInputs ==
    {head \o Ramp(len) :
        head \in {<<255, 255>>, <<254, 255>>, <<2, 0>>, <<0, 128>>}, len \in 0..MaxDataLen}

\* inputs that begin with a float32: 1.5, 2, -1, 0.5, 0, NaN, 2.25, then a ramp
FloatCountInputs ==
    {head \o Ramp(len) :
        head \in {<<0, 0, 192, 63>>, <<0, 0, 0, 64>>, <<0, 0, 128, 191>>, <<0, 0, 0, 63>>,
                  <<0, 0, 0, 0>>, <<0, 0, 192, 127>>, <<0, 0, 16, 64>>},
        len \in 0..MaxDataLen}

\* repeat counts that are negative or not integers, literal and by reference
RepeatCountCases ==
    [k \in 1..MaxRepeat |->
        Case(OneSection("", <<Leaf("head", NoId, 1, Uint),
                              Repeated(Item, RepeatNumber(0 - k)), Tail1>>), RampInputs)]
    \o << Case(OneSection("", <<Leaf("head", NoId, 1, Uint),
                                Repeated(Item, RepeatFloat(OneAndAHalf)), Tail1>>), RampInputs),
          Case(OneSection("", <<Leaf("head", NoId, 1, Uint),
                                Repeated(Box(Leaf("y", NoId, 1, NoParser)),
                                         RepeatFloat(MinusTwoAndAHalf)), Tail1>>), RampInputs),
          Case(OneSection("", <<Leaf("count", "n", 2, SignedInt),
                                Repeated(Item, RepeatId("n")), Tail1>>), SignedCountInputs),
          Case(OneSection("", <<Leaf("count", "n", 4, Float),
                                Repeated(Item, RepeatId("n")), Tail1>>), FloatCountInputs) >>

\* containers whose byteSize is more, less and as much as their children take
NestedSpanCases ==
    << OneSection("", <<Leaf("head", NoId, 1, Uint),
                        Nested("box", NoId, 3, <<Leaf("x", NoId, 1, Uint), Leaf("y", NoId, 1, Hex)>>),
                        Tail1>>),
       OneSection("", <<Nested("box", NoId, 1, <<Leaf("x", NoId, 2, Uint), Leaf("y", NoId, 1, Hex)>>),
                        Tail1>>),
       OneSection("", <<Nested("box", NoId, 0, <<Leaf("x", NoId, 1, Uint)>>), Tail1>>),
       OneSection("", <<Leaf("head", NoId, 1, Uint),
                        Nested("box", NoId, 2, <<Leaf("x", NoId, 1, Uint),
                                                 Nested("inner", NoId, 4, <<Leaf("y", NoId, 1, Uint)>>)>>),
                        Tail1>>),
       OneSection("", <<Nested("box", NoId, 2, <<>>), Tail1>>) >>

\* bit masks whose lengths sum to more than, and to exactly, the bits of the field
BitCapacityCases ==
    << OneSection("", <<BitMasked("flags", NoId, 1, <<Mask("first", NoId, 4, Uint),
                                                      Mask("second", NoId, 8, Uint)>>), Tail1>>),
       OneSection("", <<BitMasked("flags", NoId, 1, <<Mask("first", NoId, 8, NoParser),
                                                      Mask("second", NoId, 1, NoParser)>>), Tail1>>),
       OneSection("big", <<BitMasked("flags", NoId, 2, <<Mask("first", NoId, 12, Uint),
                                                         Mask("second", NoId, 8, Uint)>>), Tail1>>),
       OneSection("", <<BitMasked("flags", NoId, 1, <<Mask("first", NoId, 16, Uint)>>), Tail1>>),
       OneSection("", <<BitMasked("flags", NoId, 1, <<Mask("first", NoId, 4, Uint),
                                                      Mask("second", NoId, 4, Uint)>>), Tail1>>) >>

\* gated fields whose repeat cannot be resolved or whose assertion fails on
\* every input
GateOrderCases ==
    << OneSection("", <<Flag, OnlyIf(Repeated(Item, RepeatId("zz")), Equals("f", Num(1))), Tail1>>),
       OneSection("", <<Flag, Leaf("text", "h", 1, Hex),
                        OnlyIf(Repeated(Item, RepeatId("h")), Equals("f", Num(1))), Tail1>>),
       OneSection("", <<Flag, OnlyIf(Asserted(Opt, Num(99)), Equals("f", Num(1))), Tail1>>),
       OneSection("", <<Flag, OnlyIf(Asserted(Repeated(Item, RepeatId("zz")), Num(99)),
                                     LessThan("f", 2)), Tail1>>) >>

\* an id carried by several parsed fields: the instances of a repeated field,
\* a child and a later field, a mask and a later field
FirstMatchCases ==
    << OneSection("", <<Repeated(Count, RepeatNumber(2)), Repeated(Item, RepeatId("n")), Tail1>>),
       OneSection("", <<Repeated(Flag, RepeatNumber(3)), OnlyIf(Opt, Equals("f", Num(1))), Tail1>>),
       OneSection("", <<Nested("box", NoId, 1, <<Count>>), Count,
                        Repeated(Item, RepeatId("n")), Tail1>>),
       OneSection("", <<BitMasked("head", NoId, 1, <<Mask("lo", "n", 2, Uint),
                                                     Mask("hi", "n", 6, Uint)>>),
                        Count, Repeated(Item, RepeatId("n")), Tail1>>),
       OneSection("", <<Repeated(Box(Leaf("y", "n", 1, Uint)), RepeatNumber(2)),
                        Repeated(Item, RepeatId("n")), Tail1>>) >>

\* the calls parseStructure(def, bytes) of the specification SpecResolver
ResolverCases ==
    WithInputs(SiblingCases, RampInputs) \o WithInputs(SectionScopeCases, RampInputs)
        \o WithInputs(RepeatErrorCases, RampInputs) \o RepeatCountCases
        \o WithInputs(NestedSpanCases, RampInputs) \o WithInputs(BitCapacityCases, RampInputs)
        \o WithInputs(GateOrderCases, RampInputs) \o WithInputs(FirstMatchCases, RampInputs)

\* the names and functions callers register
CustomNames == {"double", "my-custom-parser"}
CustomFunctions == {"double", "size", "first"}

\* definitions with fields decoded by registered functions
CustomCases ==
    WithInputs(<< OneSection("", <<Leaf("value", NoId, 4, Custom("double")), Tail1>>),
                  OneSection("", <<Leaf("value", NoId, 2, Custom("my-custom-parser"))>>),
                  OneSection("", <<Leaf("a", NoId, 1, Custom("double")),
                                   Leaf("b", NoId, 1, Custom("my-custom-parser"))>>) >>,
               RampInputs)

\* definitions without conditions and without repeats, for generateStructure
RoundTripDefs ==
    << OneSection("", <<Leaf("a", NoId, 1, Uint), Leaf("b", NoId, 2, Hex)>>),
       OneSection("big", <<BitMasked("a", NoId, 1, <<Mask("first", NoId, 1, Uint),
                                                     Mask("second", NoId, 3, NoParser),
                                                     Mask("third", NoId, 4, Uint)>>),
                           Leaf("b", NoId, 1, Uint)>>),
       OneSection("", <<Nested("a", NoId, 2, <<Leaf("x", NoId, 1, Uint),
                                               Leaf("y", NoId, 1, NoParser)>>),
                        Leaf("b", NoId, 1, Uint)>>),
       OneSection("", <<Nested("a", NoId, 1, <<Leaf("x", NoId, 1, Uint),
                                               Leaf("y", NoId, 1, Uint)>>),
                        Leaf("b", NoId, 1, Uint)>>),
       Structure("", <<Section("S", <<Leaf("a", NoId, 1, Uint)>>),
                       Section("T", <<Leaf("b", NoId, 2, Uint)>>)>>) >>

\* the number arrays of a defaults tree: none, and a number followed by a ramp
DefaultArrays ==
    {<<>>} \cup {<<h>> \o Ramp(len) : h \in {0, 7, 255, 300}, len \in 0..MaxDefaultTail}

\* the defaults trees { S: { a: [...], b: [...] } }, either member optional
DefaultsTrees ==
    {NoDefaults} \cup
    {Obj([s \in {"S"} |-> Obj([n \in DOMAIN f |-> Bytes(f[n])])]) :
        f \in UNION {[D -> DefaultArrays] : D \in SUBSET {"a", "b"}}}

\* definitions with a Nested field a for generateStructure: children that are
\* all read, a child gated on an id nothing carries, no children, a child
\* gated on the field before, a container in a container
GenerateDefs ==
    << OneSection("", <<Nested("a", NoId, 2, <<Leaf("x", NoId, 1, Uint), Leaf("y", NoId, 1, Hex)>>),
                        Leaf("b", NoId, 1, Uint)>>),
       OneSection("", <<Nested("a", NoId, 1, <<OnlyIf(Leaf("x", NoId, 1, Uint),
                                                      Equals("zz", Num(1)))>>),
                        Leaf("b", NoId, 1, Uint)>>),
       OneSection("", <<Nested("a", NoId, 2, <<>>), Leaf("b", NoId, 1, Uint)>>),
       OneSection("", <<Leaf("b", "f", 1, Uint),
                        Nested("a", NoId, 1, <<OnlyIf(Leaf("x", NoId, 1, Uint), Equals("f", Num(1))),
                                               OnlyIf(Leaf("y", NoId, 1, Uint), Equals("f", Num(1)))>>)>>),
       OneSection("", <<Nested("a", NoId, 1, <<Nested("x", NoId, 1, <<Leaf("y", NoId, 1, Uint)>>)>>),
                        Leaf("b", NoId, 1, Uint)>>) >>

\* what a defaults tree holds for the Nested field a: nothing, flat lists of
\* 0..3 numbers, subtrees for its children; and for the field b: nothing, [0], [1]
DefaultsOfContainer ==
    {NoDefaults, Bytes(<<>>), Bytes(<<1>>), Bytes(<<1, 2>>), Bytes(<<7, 300, 9>>),
     Obj([n \in {} |-> NoDefaults]), Obj([n \in {"x"} |-> Bytes(<<5>>)]),
     Obj([n \in {"y"} |-> Bytes(<<6>>)]),
     Obj([n \in {"x", "y"} |-> IF n = "x" THEN Bytes(<<5>>) ELSE Bytes(<<6>>)])}

\* the defaults trees { S: { a: ..., b: ... } }, either member optional, and
\* the trees without S
ContainerDefaultsTrees ==
    {NoDefaults, Obj([s \in {"T"} |-> Bytes(<<1>>)])} \cup
    {Obj([s \in {"S"} |->
            Obj([n \in {m \in {"a", "b"} : (IF m = "a" THEN a ELSE b) # NoDefaults} |->
                    IF n = "a" THEN a ELSE b])]) :
        a \in DefaultsOfContainer, b \in {NoDefaults, Bytes(<<0>>), Bytes(<<1>>)}}

\* a call parseStructureWithReader(def, rd) of kind ph has just begun
StartOfCall(ph, def, rd) ==
    /\ phase = ph
    /\ definition = def
    /\ reader = rd
    /\ sectionIdx = 1
    /\ fieldIdx = 1
    /\ parsedSection = NewSection(def, 1)
    /\ parsedStructure = <<>>
    /\ status = "running"
    /\ error = NoError
    /\ lastCall = NoCall
    /\ generated = NoGenerated
    /\ packed = NoPacked
    /\ bitReader = NoBitReader

\* a process in which no parser has been registered
FreshRegistry ==
    /\ CUSTOM_PARSERS = EmptyRegistry
    /\ registryLog = [name \in CustomNames |-> NoLog]

----------------------------------------------------------------------------
(* The registry between the calls *)

\* no call is running
NoDefinition == Structure("", <<>>)

Idle(ph, def, rd, si, fi, section, struct, st, err, call) ==
    /\ ph = "idle"
    /\ def = NoDefinition
    /\ rd = DataReader(<<>>)
    /\ si = 1
    /\ fi = 1
    /\ section = NewSection(NoDefinition, 1)
    /\ struct = <<>>
    /\ st = "done"
    /\ err = NoError
    /\ call = NoCall

\* registerCustomParser(name, parser)
registerCustomParser ==
    /\ phase = "idle"
    /\ \E name \in CustomNames, fn \in CustomFunctions :
        /\ CUSTOM_PARSERS' = RegistrySet(CUSTOM_PARSERS, name, fn)
        /\ registryLog' = [registryLog EXCEPT ![name] = [op |-> "register", fn |-> fn]]
    /\ UNCHANGED <<phase, definition, reader, sectionIdx, fieldIdx, parsedSection,
                   parsedStructure, status, error, lastCall, generated, packed, bitReader>>

\* unregisterCustomParser(name)
unregisterCustomParser ==
    /\ phase = "idle"
    /\ \E name \in CustomNames :
        /\ CUSTOM_PARSERS' = RegistryDelete(CUSTOM_PARSERS, name)
        /\ registryLog' = [registryLog EXCEPT ![name] = [op |-> "unregister", fn |-> @.fn]]
    /\ UNCHANGED <<phase, definition, reader, sectionIdx, fieldIdx, parsedSection,
                   parsedStructure, status, error, lastCall, generated, packed, bitReader>>

\* parseStructure(definition, data) is called
parseStructure ==
    /\ phase = "idle"
    /\ \E c \in 1..Len(CustomCases) : \E bytes \in CustomCases[c].inputs :
           BeginCall("parse", CustomCases[c].def, DataReader(bytes))
    /\ UNCHANGED <<CUSTOM_PARSERS, registryLog, generated, packed, bitReader>>

\* the call returns the structure or throws the Error
Return ==
    /\ phase = "parse"
    /\ status \in {"done", "failed"}
    /\ Idle(phase', definition', reader', sectionIdx', fieldIdx', parsedSection',
            parsedStructure', status', error', lastCall')
    /\ UNCHANGED <<CUSTOM_PARSERS, registryLog, generated, packed, bitReader>>

----------------------------------------------------------------------------
(* The byte sources called directly *)

\* the readers: over the inputs 0, 1, 2, ..., and over every defaults tree
ReaderInputs ==
    {DataReader(<<0>> \o Ramp(len)) : len \in 0..MaxDataLen}
        \cup {DataReader(<<>>)}
        \cup {GeneratorReader(defaults) : defaults \in DefaultsTrees}

\* the field paths the calls are made with
ReaderPaths == {<<>>, <<"S">>, <<"S", "a">>, <<"S", "b">>, <<"S", "a", "x">>, <<"T", "a">>}

\* a reader in the hands of a caller, no structure being parsed
ReaderOnly(rd) ==
    /\ phase = "reader"
    /\ definition = NoDefinition
    /\ reader = rd
    /\ sectionIdx = 1
    /\ fieldIdx = 1
    /\ parsedSection = NewSection(NoDefinition, 1)
    /\ parsedStructure = <<>>
    /\ status = "done"
    /\ error = NoError
    /\ lastCall = NoCall
    /\ generated = NoGenerated
    /\ packed = NoPacked
    /\ bitReader = NoBitReader

\* what a call on the reader was made with and what it returned or threw
ReaderCall(op, count, fieldPath, r) ==
    [made |-> TRUE, op |-> op, count |-> count, path |-> fieldPath, offset |-> reader.offset,
     ret |-> [err |-> r.err, bytes |-> r.bytes, offset |-> r.reader.offset]]

\* reader.readBytes(count, fieldPath)
ReadBytes ==
    /\ phase = "reader"
    /\ \E count \in 0..MaxCount, fieldPath \in ReaderPaths :
       \E r \in {readBytes(reader, count, fieldPath)} :
           /\ reader' = r.reader
           /\ lastCall' = ReaderCall("readBytes", count, fieldPath, r)
    /\ UNCHANGED <<CUSTOM_PARSERS, registryLog, phase, definition, sectionIdx, fieldIdx,
                   parsedSection, parsedStructure, status, error, generated, packed, bitReader>>

\* reader.peekBytes(count, fieldPath)
PeekBytes ==
    /\ phase = "reader"
    /\ \E count \in 0..MaxCount, fieldPath \in ReaderPaths :
       \E r \in {peekBytes(reader, count, fieldPath)} :
           /\ reader' = r.reader
           /\ lastCall' = ReaderCall("peekBytes", count, fieldPath, r)
    /\ UNCHANGED <<CUSTOM_PARSERS, registryLog, phase, definition, sectionIdx, fieldIdx,
                   parsedSection, parsedStructure, status, error, generated, packed, bitReader>>

----------------------------------------------------------------------------
(* The bit reader called directly *)

\* the data the bit readers are made over: none, one byte, two bytes
BitReaderInputs ==
    {<<>>} \cup {<<b>> : b \in {0, 1, 128, 165, 255}} \cup {<<165, b>> : b \in {0, 60, 255}}

\* new BitReader(data) in the hands of a caller, nothing being parsed
BitReaderOnly(data) ==
    /\ phase = "bits"
    /\ definition = NoDefinition
    /\ reader = DataReader(<<>>)
    /\ sectionIdx = 1
    /\ fieldIdx = 1
    /\ parsedSection = NewSection(NoDefinition, 1)
    /\ parsedStructure = <<>>
    /\ status = "done"
    /\ error = NoError
    /\ lastCall = NoCall
    /\ generated = NoGenerated
    /\ packed = NoPacked
    /\ bitReader = [data |-> data, bitOffset |-> 0]

\* bitReader.readBits(count); the calls stop MaxBitCount bits past the data
ReadBits ==
    /\ phase = "bits"
    /\ \E count \in (0 - 2)..MaxBitCount :
        /\ bitReader.bitOffset + count <= 8 * Len(bitReader.data) + MaxBitCount
        /\ \E r \in {readBits(bitReader.data, bitReader.bitOffset, count)} :
               /\ bitReader' = [bitReader EXCEPT !.bitOffset = r.bitOffset]
               /\ lastCall' = [made |-> TRUE, op |-> "readBits", count |-> count,
                               bitOffset |-> bitReader.bitOffset,
                               ret |-> [err |-> r.err, bytes |-> r.bytes]]
    /\ UNCHANGED <<CUSTOM_PARSERS, registryLog, phase, definition, reader, sectionIdx,
                   fieldIdx, parsedSection, parsedStructure, status, error, generated, packed>>

----------------------------------------------------------------------------
(* Specifications *)

\* one call parseStructure(def, bytes) in a fresh process
Init ==
    /\ FreshRegistry
    /\ \E c \in 1..Len(ParseCases) : \E bytes \in ParseCases[c].inputs :
           StartOfCall("parse", ParseCases[c].def, DataReader(bytes))

Next == ParseField \/ EndSection

Spec == Init /\ [][Next]_vars

\* the round-trip script: generateStructure(def, defaults), then the bytes are
\* parsed again
InitRoundTrip ==
    /\ FreshRegistry
    /\ \E c \in 1..Len(RoundTripDefs) : \E defaults \in DefaultsTrees :
           StartOfCall("generate", RoundTripDefs[c], GeneratorReader(defaults))

NextRoundTrip == ParseField \/ EndSection \/ Reparse

SpecRoundTrip == InitRoundTrip /\ [][NextRoundTrip]_vars

\* a process that registers and unregisters parsers between its calls
InitRegistry ==
    /\ FreshRegistry
    /\ Idle(phase, definition, reader, sectionIdx, fieldIdx, parsedSection,
            parsedStructure, status, error, lastCall)
    /\ generated = NoGenerated
    /\ packed = NoPacked
    /\ bitReader = NoBitReader

NextRegistry ==
    \/ registerCustomParser
    \/ unregisterCustomParser
    \/ parseStructure
    \/ ParseField
    \/ EndSection
    \/ Return

SpecRegistry == InitRegistry /\ [][NextRegistry]_vars

\* a caller that holds a reader and calls readBytes and peekBytes on it
InitReader ==
    /\ FreshRegistry
    /\ \E rd \in ReaderInputs : ReaderOnly(rd)

NextReader == ReadBytes \/ PeekBytes

SpecReader == InitReader /\ [][NextReader]_vars

\* one call parseAndPackStructure(def, bytes)
InitPacker ==
    /\ FreshRegistry
    /\ \E c \in 1..Len(PackDefs) : \E bytes \in RampInputs \cup DistinctInputs :
           StartOfCall("pack", PackDefs[c], DataReader(bytes))

NextPacker == ParseField \/ EndSection \/ Pack

SpecPacker == InitPacker /\ [][NextPacker]_vars

\* one call parseStructure(def, bytes) on a definition whose fields look ids up
InitResolver ==
    /\ FreshRegistry
    /\ \E c \in 1..Len(ResolverCases) : \E bytes \in ResolverCases[c].inputs :
           StartOfCall("parse", ResolverCases[c].def, DataReader(bytes))

NextResolver == ParseField \/ EndSection

SpecResolver == InitResolver /\ [][NextResolver]_vars

\* one call generateStructure(def, defaults) on a definition with a Nested field
InitGenerate ==
    /\ FreshRegistry
    /\ \E c \in 1..Len(GenerateDefs) : \E defaults \in ContainerDefaultsTrees :
           StartOfCall("generate", GenerateDefs[c], GeneratorReader(defaults))

NextGenerate == ParseField \/ EndSection

SpecGenerate == InitGenerate /\ [][NextGenerate]_vars

\* a caller that holds a BitReader and calls readBits on it
InitBits ==
    /\ FreshRegistry
    /\ \E data \in BitReaderInputs : BitReaderOnly(data)

NextBits == ReadBits

SpecBits == InitBits /\ [][NextBits]_vars

----------------------------------------------------------------------------
(* Properties: what they read *)

\* the last top-level call of parseField and what it returned or threw
Called == lastCall.made
TheField == lastCall.fieldDef
Returned == lastCall.ret
Succeeded == ~IsError(lastCall.ret.err)
Data == reader.data

\* a field parsed without a condition, a repeat or an assertion
IsPlain(fieldDef) ==
    fieldDef.if.t = "none" /\ fieldDef.repeat.t = "none" /\ fieldDef.assert.t = "none"

RECURSIVE ConsumptionOfAll(_)
\* the bytes one instance of a field takes from the reader: its byteSize, and
\* for a Nested field what its (plain) children take
Consumption(fieldDef) ==
    IF fieldDef.kind = "nested" THEN ConsumptionOfAll(fieldDef.subFields)
    ELSE fieldDef.byteSize

ConsumptionOfAll(defs) ==
    IF defs = <<>> THEN 0
    ELSE (IF Head(defs).kind = "nested" THEN ConsumptionOfAll(Head(defs).subFields)
          ELSE Head(defs).byteSize) + ConsumptionOfAll(Tail(defs))

\* instance i of count, each taking c bytes, holds these bytes of the input
InstanceBytes(i, c) ==
    Slice(Data, lastCall.offset + (i - 1) * c, lastCall.offset + (i - 1) * c + TheField.byteSize)

\* count instances of the field were parsed, in order, and the cursor moved
\* count times the consumption of one
YieldsInstances(count) ==
    /\ Len(Returned.fields) = count
    /\ Returned.offset = lastCall.offset + count * Consumption(TheField)
    /\ \A i \in 1..count :
        /\ Returned.fields[i].name = TheField.name
        /\ Returned.fields[i].bytes = InstanceBytes(i, Consumption(TheField))

\* two decoded values are the same value
SameValue(a, b) == a.t = b.t /\ a.v = b.v

\* the integer a mapping key denotes, read as decimal, 0x-hex or 0b-binary
DenotedInteger(key) ==
    CASE key = Key0x01 -> 1
      [] key = Key2 -> 2
      [] key = Key0b11 -> 3
      [] key = Key0x02 -> 2
      [] key = Key10 -> 10
      [] key = Key1 -> 1

\* the unsigned integer value of bytes under an endianness
RECURSIVE UnsignedBigEndian(_, _)
UnsignedBigEndian(bytes, acc) ==
    IF bytes = <<>> THEN acc ELSE UnsignedBigEndian(Tail(bytes), acc * 256 + Head(bytes))

Reversed(bytes) == [i \in 1..Len(bytes) |-> bytes[Len(bytes) + 1 - i]]

UnsignedValue(bytes, endianness) ==
    UnsignedBigEndian(IF endianness = "little" THEN Reversed(bytes) ELSE bytes, 0)

\* the bytes the field of the last call reads
FieldInput == Slice(Data, lastCall.offset, lastCall.offset + TheField.byteSize)
HasInput == lastCall.offset + TheField.byteSize <= Len(Data)

\* the entries of the enum mapping, in enumeration order, whose key denotes n
EnumHits(n) ==
    {i \in 1..Len(ObjectEntries(TheField.parser.mapping)) :
        DenotedInteger(ObjectEntries(TheField.parser.mapping)[i].key) = n}

Least(S) == CHOOSE i \in S : \A j \in S : i <= j

\* the enum decoder answered for the integer n as the claims describe: the
\* value of the first entry whose key denotes n, a decode error when none does
EnumAnswers(n) ==
    IF EnumHits(n) = {}
    THEN Returned.err.kind = "DecodeError" /\ Returned.err.message = "not found in enum mapping"
    ELSE /\ Succeeded
         /\ SameValue(Returned.fields[1].parsedValue,
                      ObjectEntries(TheField.parser.mapping)[Least(EnumHits(n))].value)

----------------------------------------------------------------------------
(* Properties *)

\* C1 (as stated): once generateStructure(def, defaults) has succeeded on a
\* definition without conditions and repeats, parsing the generated bytes
\* succeeds and returns a tree equal to the generated one.
C1_RoundTrip ==
    phase = "reparse" =>
        /\ status # "failed"
        /\ status = "done" => parsedStructure = generated.struct

\* a field repeated by reference to an id that resolves to a numeric value
C2_Applies ==
    /\ Called
    /\ TheField.repeat.t = "id"
    /\ TheField.if.t = "none"
    /\ findFieldById(TheField.repeat.id, lastCall.section.fields).found
    /\ findFieldById(TheField.repeat.id, lastCall.section.fields).field.hasValue
    /\ IsNumber(findFieldById(TheField.repeat.id, lastCall.section.fields).field.parsedValue)

C2_Count == findFieldById(TheField.repeat.id, lastCall.section.fields).field.parsedValue.v

\* C2: a field whose repeat refers to an earlier-parsed numeric field valued N
\* is parsed whenever the input holds N instances, and then yields exactly N
\* instances, in order, the cursor advanced by N times its consumption; for
\* N = 0 no instance and no movement.
C2_RepeatByReference ==
    C2_Applies =>
        /\ lastCall.offset + C2_Count * Consumption(TheField) <= Len(Data) => Succeeded
        /\ Succeeded => YieldsInstances(C2_Count)
        /\ (Succeeded /\ C2_Count = 0) =>
               Returned.fields = <<>> /\ Returned.offset = lastCall.offset

\* C2 happens: three 2-byte instances were parsed by reference
C2_Witness ==
    /\ C2_Applies
    /\ Succeeded
    /\ C2_Count = 3
    /\ TheField.byteSize = 2
    /\ Len(Returned.fields) = 3
    /\ Returned.offset = lastCall.offset + 6

\* C3 (as stated): a field whose repeat is the literal k yields exactly k
\* instances and consumes k times its byte size, for every k >= 0; for k = 0
\* no instance and no bytes.
C3_LiteralRepeat ==
    (Called /\ TheField.repeat.t = "number" /\ TheField.if.t = "none") =>
        /\ lastCall.offset + TheField.repeat.n * TheField.byteSize <= Len(Data) => Succeeded
        /\ Succeeded => YieldsInstances(TheField.repeat.n)

\* a field whose condition evaluates to false
C4_Applies ==
    /\ Called
    /\ TheField.if.t # "none"
    /\ ~checkFieldCondition(lastCall.section, TheField.if)

\* the bytes held by the parsed fields of a list
RECURSIVE BytesIn(_)
BytesIn(fields) ==
    IF fields = <<>> THEN 0 ELSE Len(Head(fields).bytes) + BytesIn(Tail(fields))

\* child k of the Nested field of the last call, its condition false, is
\* absent and the next child reads where it would have read
C4_ChildSkipped(k) ==
    /\ Returned.fields[1].subFields[k] = <<>>
    /\ k < Len(TheField.subFields) /\ Returned.fields[1].subFields[k + 1] # <<>> =>
        LET before == SubSeq(Returned.fields[1].subFields, 1, k - 1)
            start == lastCall.offset
                        + BytesIn([j \in 1..Len(before) |-> before[j][1]])
            next == Returned.fields[1].subFields[k + 1][1]
        IN  next.bytes = Slice(Data, start, start + Len(next.bytes))

\* C4: a field whose `if` condition evaluates to false returns an empty list,
\* is absent from the parsed section, and leaves the cursor where it was, so
\* the next field reads at the same offset; the same for a child of a Nested
\* field.
C4_UnmetCondition ==
    /\ C4_Applies =>
        /\ Succeeded
        /\ Returned.fields = <<>>
        /\ Returned.offset = lastCall.offset
        /\ fieldIdx > 1 => parsedSection = lastCall.section /\ reader.offset = lastCall.offset
    /\ (Called /\ TheField.kind = "nested" /\ IsPlain(TheField) /\ Succeeded) =>
        \A k \in 1..Len(TheField.subFields) :
            (TheField.subFields[k].if.t # "none"
                /\ ~checkFieldCondition(lastCall.section, TheField.subFields[k].if))
            => C4_ChildSkipped(k)

\* C4 happens: a gated field with bytes left to read was skipped
C4_Witness ==
    /\ C4_Applies
    /\ HasInput
    /\ fieldIdx > 1
    /\ Returned.fields = <<>>
    /\ reader.offset = lastCall.offset

\* a 1-byte BitMasked field with the masks 1, 3, 4 was parsed
C5_Applies ==
    /\ Called
    /\ TheField.kind = "bitmask"
    /\ IsPlain(TheField)
    /\ TheField.byteSize = 1
    /\ [k \in 1..Len(TheField.bitMasks) |-> MaskLength(TheField.bitMasks[k])] = <<1, 3, 4>>
    /\ HasInput

C5_Byte == Data[lastCall.offset + 1]
C5_Masks == Returned.fields[1].subFields[1]

\* the masks hold these three values, each alone in its result byte, and a
\* mask decoded as uint has the value as its parsed value
C5_MasksAre(first, second, third) ==
    /\ Succeeded
    /\ Len(C5_Masks) = 3
    /\ C5_Masks[1].bytes = <<first>>
    /\ C5_Masks[2].bytes = <<second>>
    /\ C5_Masks[3].bytes = <<third>>
    /\ TheField.bitMasks[1].parser.type = "uint" =>
        /\ SameValue(C5_Masks[1].parsedValue, Num(first))
        /\ SameValue(C5_Masks[2].parsedValue, Num(second))
        /\ SameValue(C5_Masks[3].parsedValue, Num(third))

C6_Applies ==
    /\ Called
    /\ TheField.kind = "leaf"
    /\ TheField.parser.type = "enum"
    /\ IsPlain(TheField)
    /\ TheField.byteSize = 1
    /\ HasInput

\* C6: on a 1-byte field the enum decoder returns the value of the first
\* mapping entry (in the mapping's enumeration order) whose key, read as a
\* decimal, 0x-hex or 0b-binary integer, equals the byte, and fails with a
\* decode error when no key equals it; with { "0x01": "A", "2": "B" } the byte
\* 1 gives "A", 2 gives "B" and 3 fails.
C6_EnumOneByte ==
    C6_Applies =>
        /\ EnumAnswers(FieldInput[1])
        /\ TheField.parser.mapping = MappingAB =>
            /\ FieldInput[1] = 1 => Succeeded /\ Returned.fields[1].parsedValue = Str(TextA)
            /\ FieldInput[1] = 2 => Succeeded /\ Returned.fields[1].parsedValue = Str(TextB)
            /\ FieldInput[1] = 3 => Returned.err.kind = "DecodeError"

\* C6 happens: the byte 2 was decoded to "B" by the key "2", which is the
\* second key of the mapping as written
C6_Witness ==
    /\ C6_Applies
    /\ TheField.parser.mapping = MappingAB
    /\ FieldInput = <<2>>
    /\ Succeeded
    /\ Returned.fields[1].parsedValue = Str(TextB)

\* C7 (as stated): on a 2-byte or 4-byte field the enum decoder returns the
\* first mapping entry whose key equals the unsigned integer value of the
\* field's bytes under the structure's endianness, and fails with a decode
\* error when that value matches no key.
C7_EnumWide ==
    (/\ Called
     /\ TheField.kind = "leaf"
     /\ TheField.parser.type = "enum"
     /\ IsPlain(TheField)
     /\ TheField.byteSize \in {2, 4}
     /\ HasInput)
    => EnumAnswers(UnsignedValue(FieldInput, Endianness(definition)))

\* the text of an endpoint id: "local" for 18 zero bytes, else the characters
\* before the first NUL
C8_Id(idBytes) ==
    IF \A i \in 1..Len(idBytes) : idBytes[i] = 0 THEN <<108, 111, 99, 97, 108>>
    ELSE IF \E i \in 1..Len(idBytes) : idBytes[i] = 0
    THEN SubSeq(idBytes, 1, Least({i \in 1..Len(idBytes) : idBytes[i] = 0}) - 1)
    ELSE idBytes

C8_Prefix(type) == IF type = 0 THEN <<64>> ELSE IF type = 1 THEN <<64, 43>> ELSE <<64, 64>>

C8_Suffix(instance) ==
    IF instance = 0 THEN <<>>
    ELSE IF instance = 65535 THEN <<47, 42>>
    ELSE <<47>> \o NumberToString(instance)

\* C8 (as stated): the endpoint decoder fails on any length but 21; on 21
\* bytes it returns prefix + id + suffix: "@", "@+", "@@" for byte0 = 0, 1, 2;
\* "local" for an all-zero id, else the id's text cut at the first NUL; no
\* suffix for instance 0, "/*" for 65535, "/<decimal>" otherwise, the instance
\* being the uint16 of bytes 19-20 in the structure's endianness.
C8_Endpoint ==
    (Called /\ TheField.parser.type = "endpoint" /\ IsPlain(TheField) /\ HasInput) =>
        IF TheField.byteSize # 21
        THEN Returned.err.kind = "DecodeError"
        ELSE FieldInput[1] <= 2 =>
                /\ Succeeded
                /\ Returned.fields[1].parsedValue =
                       Str(C8_Prefix(FieldInput[1])
                           \o C8_Id(SubSeq(FieldInput, 2, 19))
                           \o C8_Suffix(UnsignedValue(SubSeq(FieldInput, 20, 21),
                                                      Endianness(definition))))

\* the field the assertion is on: the field of the last call, or the first
\* child of the Nested field of the last call
C9_OnChild == TheField.assert.t # "is"
C9_Def == IF C9_OnChild THEN TheField.subFields[1] ELSE TheField
C9_Path == IF C9_OnChild THEN Append(lastCall.path, TheField.subFields[1].name) ELSE lastCall.path
C9_Kept == IF C9_OnChild THEN Returned.fields[1].subFields[1][1] ELSE Returned.fields[1]

\* what the field decodes to: [err, value]
C9_Decoded ==
    OptionalValue(Slice(Data, lastCall.offset, lastCall.offset + C9_Def.byteSize),
                  C9_Def.parser, Endianness(definition))

\* a non-repeated field with assert.is, its bytes present and decodable
C9_Applies ==
    /\ Called
    /\ \/ TheField.assert.t = "is"
       \/ /\ TheField.kind = "nested"
          /\ IsPlain(TheField)
          /\ TheField.subFields # <<>>
          /\ TheField.subFields[1].assert.t = "is"
    /\ C9_Def.kind = "leaf"
    /\ C9_Def.repeat.t = "none"
    /\ C9_Def.if.t = "none"
    /\ lastCall.offset + Consumption(TheField) <= Len(Data)
    /\ HasInput
    /\ ~IsError(C9_Decoded.err)

\* C9: for a non-repeated field with assert.is = v, parsing fails with the
\* assertion error that names the field's dotted path whenever the decoded
\* value differs from v, and then no structure is returned; whenever the
\* decoded value equals v the field is kept and parsing goes on.
C9_Assertion ==
    C9_Applies =>
        IF SameValue(C9_Decoded.value, C9_Def.assert.is)
        THEN /\ Succeeded
             /\ SameValue(C9_Kept.parsedValue, C9_Def.assert.is)
             /\ status # "failed"
             /\ fieldIdx > 1 => parsedSection.fields[Len(parsedSection.fields)] = Returned.fields[1]
        ELSE /\ Returned.err = Err("AssertionFailed", "Assertion failed for field", C9_Path)
             /\ status = "failed"
             /\ error = Returned.err
             /\ parsedStructure = <<>>

\* C9 happens: a field with assert.is = 5 decoded to 6 and the call failed
\* naming S.magic
C9_Witness ==
    /\ C9_Applies
    /\ SameValue(C9_Def.assert.is, Num(5))
    /\ SameValue(C9_Decoded.value, Num(6))
    /\ status = "failed"
    /\ error.kind = "AssertionFailed"
    /\ error.path = <<"S", "magic">>

\* a field with the parser custom(name) was parsed, its bytes present
C10_Applies ==
    /\ phase = "parse"
    /\ Called
    /\ TheField.parser.type = "custom"
    /\ HasInput

C10_Log == registryLog[TheField.parser.name]

\* C10: after any sequence of registerCustomParser and unregisterCustomParser
\* calls, parsing a field with parser custom(name) succeeds with the result of
\* the function registered last for the name if and only if the last registry
\* operation on the name was a register; otherwise (never registered, or
\* unregistered last) it fails with the not-found decode error.
C10_LastOperationDecides ==
    C10_Applies =>
        IF C10_Log.op = "register"
        THEN /\ Succeeded
             /\ SameValue(Returned.fields[1].parsedValue,
                          ApplyCustomParser(C10_Log.fn, FieldInput))
             /\ (C10_Log.fn = "double" /\ TheField.byteSize = 4) =>
                    Returned.fields[1].parsedValue = Num(8)
        ELSE /\ ~Succeeded
             /\ Returned.err = Err("DecodeError", "Custom parser not found",
                                   <<TheField.parser.name>>)

\* C10 happens: "double" was registered, then unregistered, and the parse of
\* the 4-byte field failed
C10_Witness ==
    /\ C10_Applies
    /\ TheField.parser.name = "double"
    /\ TheField.byteSize = 4
    /\ C10_Log = [op |-> "unregister", fn |-> "double"]
    /\ Returned.err.kind = "DecodeError"

\* a field with the parser of this type, not gated, repeated or asserted, its
\* bytes present
NumberFieldParsed(type) ==
    /\ Called
    /\ TheField.kind = "leaf"
    /\ TheField.parser.type = type
    /\ IsPlain(TheField)
    /\ HasInput

\* C11 (as stated): the uint decoder follows the structure's endianness: a
\* 2- or 4-byte field decodes least-significant-first in a little-endian
\* structure and most-significant-first in a big-endian one ([0x00, 0x01] is
\* 256 and 1).  Stated on bytes below 0x80, where no sign is involved.
C11_UintEndianness ==
    (/\ NumberFieldParsed("uint")
     /\ TheField.byteSize \in {2, 4}
     /\ \A i \in 1..Len(FieldInput) : FieldInput[i] < 128)
    => /\ Succeeded
       /\ SameValue(Returned.fields[1].parsedValue,
                    Num(UnsignedValue(FieldInput, Endianness(definition))))

RECURSIVE BytesOfNumber(_, _)
\* the n low base-256 digits of a natural number, least significant first
BytesOfNumber(v, n) ==
    IF n = 0 THEN <<>> ELSE <<v % 256>> \o BytesOfNumber(v \div 256, n - 1)

\* C12 (as stated): the uint decoder returns an unsigned value: for a field
\* of 1 to 6 bytes the non-negative integer the bytes denote (here least
\* significant first, in a little-endian structure), and a field of more than
\* 6 bytes is rejected.
C12_UintUnsigned ==
    (NumberFieldParsed("uint") /\ Endianness(definition) = "little") =>
        IF TheField.byteSize > 6
        THEN Returned.err.kind = "DecodeError"
        ELSE /\ Succeeded
             /\ Returned.fields[1].parsedValue.t = "num"
             /\ Returned.fields[1].parsedValue.v >= 0
             /\ BytesOfNumber(Returned.fields[1].parsedValue.v, TheField.byteSize) = FieldInput

RECURSIVE SignedBigEndian(_, _)
SignedBigEndian(bytes, acc) ==
    IF bytes = <<>> THEN acc ELSE SignedBigEndian(Tail(bytes), acc * 256 + Head(bytes))

\* the two's-complement value of bytes under an endianness: the top byte
\* counts from -128 to 127
SignedValue(bytes, endianness) ==
    LET Value(be) == SignedBigEndian(Tail(be), IF Head(be) >= 128 THEN Head(be) - 256 ELSE Head(be))
    IN  Value(IF endianness = "little" THEN Reversed(bytes) ELSE bytes)

\* C13 (as stated): the int decoder returns the two's-complement signed value
\* of a 1-, 2- or 4-byte field in the structure's endianness (0xFF is -1,
\* 0x80 is -128) and fails with a decode error for every other length.
C13_IntSigned ==
    NumberFieldParsed("int") =>
        IF TheField.byteSize \in {1, 2, 4}
        THEN /\ Succeeded
             /\ SameValue(Returned.fields[1].parsedValue,
                          Num(SignedValue(FieldInput, Endianness(definition))))
        ELSE Returned.err.kind = "DecodeError"

\* a call of readBytes or peekBytes on the real-data byte source
C14_Applies == lastCall.made /\ reader.mode = "data"

\* C14: for the real-data byte source at offset o over data of length L:
\* readBytes(n) with o + n <= L returns the bytes [o, o + n) and sets the
\* offset to o + n; peekBytes(n) with o + n <= L returns the same bytes and
\* leaves the offset at o; with o + n > L both fail with the out-of-range error
\* and leave the offset at o.
C14_RealDataReader ==
    C14_Applies =>
        IF lastCall.offset + lastCall.count <= Len(Data)
        THEN /\ ~IsError(lastCall.ret.err)
             /\ Len(lastCall.ret.bytes) = lastCall.count
             /\ \A i \in 1..lastCall.count :
                    lastCall.ret.bytes[i] = Data[lastCall.offset + i]
             /\ reader.offset = IF lastCall.op = "readBytes"
                                THEN lastCall.offset + lastCall.count
                                ELSE lastCall.offset
        ELSE /\ lastCall.ret.err.kind = "OutOfRange"
             /\ reader.offset = lastCall.offset

\* C14 happens: after reads have moved the offset to 3, a peek of 2 bytes
\* returned the bytes at 3 and 4 and left the offset at 3
C14_Witness ==
    /\ C14_Applies
    /\ lastCall.op = "peekBytes"
    /\ lastCall.offset = 3
    /\ lastCall.count = 2
    /\ lastCall.ret.bytes = <<3, 4>>
    /\ reader.offset = 3

\* the entry of the defaults tree at the path of the last call
C15_Entry == LookupDefaults(reader.customByteData, lastCall.path, 1)

\* a call on the generation-mode byte source whose defaults hold bytes only
C15_Applies ==
    /\ lastCall.made
    /\ reader.mode = "gen"
    /\ (~C15_Entry.invalid /\ C15_Entry.node.t = "arr") =>
            \A i \in 1..Len(C15_Entry.node.v) : C15_Entry.node.v[i] \in 0..255

\* C15 (as stated): readBytes(n, path) and peekBytes(n, path) of the
\* generation-mode byte source return exactly n bytes whenever they succeed:
\* n zero bytes when the tree has no entry at path, n bytes taken from the
\* entry when it is a flat byte sequence of at least n bytes; they fail with
\* the invalid-defaults error when the entry is not a flat byte sequence or is
\* shorter than n.
C15_GeneratorReader ==
    C15_Applies =>
        IF ~C15_Entry.invalid /\ C15_Entry.node.t = "undef"
        THEN ~IsError(lastCall.ret.err) /\ lastCall.ret.bytes = Zeros(lastCall.count)
        ELSE IF ~C15_Entry.invalid /\ C15_Entry.node.t = "arr"
                /\ Len(C15_Entry.node.v) >= lastCall.count
        THEN /\ ~IsError(lastCall.ret.err)
             /\ lastCall.ret.bytes = SubSeq(C15_Entry.node.v, 1, lastCall.count)
        ELSE lastCall.ret.err.kind = "InvalidDefaults"

RECURSIVE UnflaggedField(_)
\* the same definition without its usage = "omit" flags
UnflaggedField(def) ==
    [def EXCEPT !.usage = "",
                !.subFields = [k \in 1..Len(def.subFields) |-> UnflaggedField(def.subFields[k])],
                !.bitMasks = [k \in 1..Len(def.bitMasks) |->
                                 [def.bitMasks[k] EXCEPT !.usage = ""]]]

UnflaggedSection(sectionDef) ==
    [sectionDef EXCEPT !.usage = "",
                       !.fields = [k \in 1..Len(sectionDef.fields) |->
                                      UnflaggedField(sectionDef.fields[k])]]

Unflagged(def) ==
    [def EXCEPT !.sections = [k \in 1..Len(def.sections) |-> UnflaggedSection(def.sections[k])]]

\* the definitions below a definition: sections, fields, children or masks
DefsBelow(def) ==
    IF "sections" \in DOMAIN def THEN def.sections
    ELSE IF "fields" \in DOMAIN def THEN def.fields
    ELSE IF "kind" \in DOMAIN def /\ def.kind = "nested" THEN def.subFields
    ELSE IF "kind" \in DOMAIN def /\ def.kind = "bitmask" THEN def.bitMasks
    ELSE <<>>

RECURSIVE Pruned(_, _), PrunedEntries(_, _, _)
\* the members of an object that has one member per definition, in order,
\* without the members of the flagged definitions
PrunedEntries(entries, defs, k) ==
    IF k > Len(defs) THEN <<>>
    ELSE (IF defs[k].usage = "omit" THEN <<>>
          ELSE <<[key |-> entries[k].key, value |-> Pruned(entries[k].value, defs[k])]>>)
         \o PrunedEntries(entries, defs, k + 1)

\* a JSON tree packed for the definition without flags, less everything the
\* definition flags
Pruned(json, def) ==
    IF json.t = "jlist" THEN JList([i \in 1..Len(json.v) |-> Pruned(json.v[i], def)])
    ELSE IF json.t = "obj" THEN JObj(PrunedEntries(json.v, DefsBelow(def), 1))
    ELSE json

\* the state after a top-level parseField of the section being parsed
C16_AfterCall ==
    /\ Called
    /\ sectionIdx <= Len(definition.sections)
    /\ (fieldIdx > 1 \/ status = "failed")

\* parseField on the field without its flags, called as the last call was
C16_Flagless ==
    parseField(UnflaggedSection(SectionDef), UnflaggedField(TheField),
               [reader EXCEPT !.offset = lastCall.offset], lastCall.section,
               Endianness(definition), lastCall.path)

\* C16: the omit flag does not affect parsing: a schema and the same schema
\* without its usage = "omit" flags (on fields, bitmasks, sections) parse the
\* same bytes to the same fields, the same error and the same cursor position;
\* the packer's output is the output for the schema without flags less the
\* flagged fields, masks and sections.
C16_OmitOnlyProjects ==
    /\ C16_AfterCall =>
        /\ C16_Flagless.err = Returned.err
        /\ C16_Flagless.fields = Returned.fields
        /\ C16_Flagless.reader.offset = Returned.offset
    /\ packed.made =>
        /\ ~IsError(packed.err)
        /\ packed.json =
               Pruned(parsedStructureToJSON(parsedStructure, Unflagged(definition)).json,
                      definition)

\* C16 happens: two instances of a flagged field were parsed and consumed
\* their bytes, and the packed section holds only count and tail
C16_Witness ==
    /\ packed.made
    /\ definition = PackDefs[2]
    /\ Len(parsedStructure[1].fields) = 4
    /\ parsedStructure[1].fields[2].name = "item"
    /\ reader.offset = 4
    /\ Len(packed.json.v[1].value.v) = 2
    /\ packed.json.v[1].value.v[2].key = <<116, 97, 105, 108>>

\* the value of the member of an object with this name, normalised
Member(json, name) ==
    LET hits == {i \in 1..Len(json.v) : json.v[i].key = normalizeName(NameText(name))}
    IN  json.v[Least(hits)].value

\* the JSON list with one entry per instance, in order
C18_ListOf(instances, def) ==
    JList([i \in 1..Len(instances) |-> parsedFieldToJSON(instances[i], def)])

\* the parsed fields of section s that field definition d produced
C18_Instances(s, d) ==
    SelectSeq(parsedStructure[s].fields,
              LAMBDA f : f.name = definition.sections[s].fields[d].name)

\* C18 (as stated): the packer expands every repeated field into an ordered
\* list with exactly one entry per parsed instance, in parse order, for
\* repeated top-level fields and for repeated children of a Nested field
\* alike.
C18_RepeatsBecomeLists ==
    packed.made =>
        \A s \in 1..Len(definition.sections) :
            definition.sections[s].usage # "omit" =>
            \A d \in 1..Len(definition.sections[s].fields) :
                LET def == definition.sections[s].fields[d]
                    section == Member(packed.json, definition.sections[s].name)
                IN  def.usage # "omit" =>
                    /\ def.repeat.t # "none" =>
                           Member(section, def.name) = C18_ListOf(C18_Instances(s, d), def)
                    /\ (def.kind = "nested" /\ def.repeat.t = "none"
                            /\ C18_Instances(s, d) # <<>>) =>
                        \A k \in 1..Len(def.subFields) :
                            (def.subFields[k].usage # "omit"
                                /\ def.subFields[k].repeat.t # "none") =>
                            Member(Member(section, def.name), def.subFields[k].name)
                                = C18_ListOf(C18_Instances(s, d)[1].subFields[k],
                                             def.subFields[k])

\* no byte occurs twice in the input
DistinctBytes == \A i, j \in 1..Len(Data) : i # j => Data[i] # Data[j]

\* the offset these bytes were read at, when no byte occurs twice
StartOf(bytes) == CHOOSE o \in 0..Len(Data) : Slice(Data, o, o + Len(bytes)) = bytes

\* the place in the schema of the definition with this name
DefIndex(name, defs) == CHOOSE i \in 1..Len(defs) : defs[i].name = name

\* the parsed fields of a section are in the order of its schema, and their
\* byte ranges in the order of their offsets: a later field starts where an
\* earlier Leaf or BitMasked field ends, or after; after a Nested field, whose
\* bytes are peeked, it starts at the offset of the container or after
C17_Ordered(fields, defs) ==
    \A p, q \in 1..Len(fields) :
        p < q =>
            /\ DefIndex(fields[p].name, defs) <= DefIndex(fields[q].name, defs)
            /\ (DistinctBytes /\ fields[p].bytes # <<>> /\ fields[q].bytes # <<>>) =>
                   StartOf(fields[p].bytes)
                       + (IF defs[DefIndex(fields[p].name, defs)].kind = "nested"
                          THEN 0 ELSE Len(fields[p].bytes))
                   <= StartOf(fields[q].bytes)

\* C17: in every parsed section the parsed fields appear in schema order with
\* repeats expanded in place: the instances of definition i precede those of
\* definition j for i < j, the instances of one repeated field are contiguous
\* and in iteration order, and the byte ranges they were read from are in
\* increasing offset order.
C17_SchemaOrder ==
    /\ \A s \in 1..Len(parsedStructure) :
           C17_Ordered(parsedStructure[s].fields, definition.sections[s].fields)
    /\ sectionIdx <= Len(definition.sections) =>
           C17_Ordered(parsedSection.fields, SectionDef.fields)

\* C17 happens: count, two instances of a repeated Nested field and tail were
\* parsed from the offsets 0, 1, 3 and 5 of an input without equal bytes
C17_Witness ==
    /\ definition = PackDefs[3]
    /\ status = "done"
    /\ DistinctBytes
    /\ [i \in 1..Len(parsedStructure[1].fields) |-> parsedStructure[1].fields[i].name]
           = <<"count", "box", "box", "tail">>
    /\ [i \in 1..Len(parsedStructure[1].fields) |->
           StartOf(parsedStructure[1].fields[i].bytes)] = <<0, 1, 3, 5>>

RECURSIVE LeafBytes(_), LeafBytesOfLists(_)
\* the captured bytes of the leaves below these parsed fields, depth first:
\* a Nested field gives those of its children, any other field its own
LeafBytes(fields) ==
    IF fields = <<>> THEN <<>>
    ELSE (IF Head(fields).hasSub /\ Head(fields).hasValue
          THEN LeafBytesOfLists(Head(fields).subFields)
          ELSE Head(fields).bytes) \o LeafBytes(Tail(fields))

LeafBytesOfLists(lists) ==
    IF lists = <<>> THEN <<>> ELSE LeafBytes(Head(lists)) \o LeafBytesOfLists(Tail(lists))

RECURSIVE LeafBytesOfSections(_)
LeafBytesOfSections(struct) ==
    IF struct = <<>> THEN <<>>
    ELSE LeafBytes(Head(struct).fields) \o LeafBytesOfSections(Tail(struct))

\* C19 (as stated): the output of generateBytes / convertStructureToBytes is
\* the concatenation, depth-first in schema order, of the captured bytes of
\* every leaf of the generated tree: the children of a Nested field
\* contribute their own captured bytes, not the container's capture.
C19_LeavesFlattened ==
    generated.made => generated.bytes = LeafBytesOfSections(generated.struct)

RECURSIVE MentionsUnresolved(_)
\* the condition holds a comparison on an id that no parsed field of the
\* section of the last call carries
MentionsUnresolved(condition) ==
    IF condition.t = "not" THEN MentionsUnresolved(condition.c)
    ELSE IF condition.t \in {"and", "or"}
    THEN \E i \in 1..Len(condition.cs) : MentionsUnresolved(condition.cs[i])
    ELSE ~findFieldById(condition.id, lastCall.section.fields).found

RECURSIVE UnresolvedAsFalse(_)
\* the condition as a boolean expression in which every comparison on an
\* unresolvable id is false
UnresolvedAsFalse(condition) ==
    IF condition.t = "not" THEN ~UnresolvedAsFalse(condition.c)
    ELSE IF condition.t = "and"
    THEN \A i \in 1..Len(condition.cs) : UnresolvedAsFalse(condition.cs[i])
    ELSE IF condition.t = "or"
    THEN \E i \in 1..Len(condition.cs) : UnresolvedAsFalse(condition.cs[i])
    ELSE /\ findFieldById(condition.id, lastCall.section.fields).found
         /\ checkFieldCondition(lastCall.section, condition)

\* a field gated by a condition that mentions an unresolvable id
C20_Applies ==
    /\ Called
    /\ TheField.if.t # "none"
    /\ MentionsUnresolved(TheField.if)

\* the field of the last call was skipped without error
C20_Skipped ==
    /\ Succeeded
    /\ Returned.fields = <<>>
    /\ Returned.offset = lastCall.offset

\* parseField on the field without its condition, called as the last call was
C20_Ungated ==
    parseField(SectionDef, [TheField EXCEPT !.if = NoCondition],
               [reader EXCEPT !.offset = lastCall.offset], lastCall.section,
               Endianness(definition), lastCall.path)

\* C20 (as stated): a condition that references an id not yet resolvable in
\* the section evaluates to false, so the gated field is skipped and no error
\* is raised, for every condition shape that mentions the id: equals,
\* lessThan, greaterThan, includes, and not / and / or compositions of them.
C20_UnresolvedSkips ==
    C20_Applies => C20_Skipped

\* C20 (amended): a comparison (equals, lessThan, greaterThan, includes) on an
\* id not yet resolvable evaluates to false and raises no error; not, and, or
\* combine the results as boolean operators.  The gated field is skipped when
\* the expression is false, and parsed as if it had no condition when it is
\* true, as for not over such a comparison.
C20_UnresolvedComparisonIsFalse ==
    (C20_Applies /\ C16_AfterCall) =>
        IF UnresolvedAsFalse(TheField.if)
        THEN /\ C20_Ungated.err = Returned.err
             /\ C20_Ungated.fields = Returned.fields
             /\ C20_Ungated.reader.offset = Returned.offset
        ELSE C20_Skipped

\* C20 happens: a field gated by not(equals(zz, 0)), zz unresolvable, was
\* parsed and consumed its byte
C20_Witness ==
    /\ C20_Applies
    /\ TheField.if = Not(Equals("zz", Num(0)))
    /\ Succeeded
    /\ Len(Returned.fields) = 1
    /\ Returned.offset = lastCall.offset + 1

----------------------------------------------------------------------------
(* Properties of the lookups by id *)

\* the children of the field of the last call, and what was parsed for child k
\* in instance i
SubDefs == TheField.subFields
ChildFields(i, k) == Returned.fields[i].subFields[k]

\* child j carries an id, is not gated or repeated, and was parsed earlier
\* than child k of instance i: in an instance before, or before k in the same
C21_Earlier(i, k, j) ==
    /\ SubDefs[j].id # NoId
    /\ IsPlain(SubDefs[j])
    /\ i >= 2 \/ j < k
    /\ ~findFieldById(SubDefs[j].id, lastCall.section.fields).found

\* the value of child j in the first instance, the earliest field with its id
C21_Value(j) == ChildFields(1, j)[1].parsedValue

\* C21 (as stated): while a Nested field is being parsed, a child resolves the
\* ids of the children parsed before it, those of the same instance and those
\* of the instances before: a child repeated by such an id does not fail as a
\* missing reference and yields as many instances as the value says, and a
\* child gated by equals on such an id is parsed exactly when the value is equal.
C21_EarlierPartsVisible ==
    (Called /\ IsNested(TheField) /\ TheField.if.t = "none") =>
        /\ (\E k, j \in 1..Len(SubDefs) :
                /\ C21_Earlier(1, k, j)
                /\ SubDefs[k].repeat.t = "id"
                /\ SubDefs[k].repeat.id = SubDefs[j].id
                /\ SubDefs[k].if.t = "none")
             => Returned.err.kind # "MissingReference"
        /\ Succeeded =>
               \A i \in 1..Len(Returned.fields) : \A k, j \in 1..Len(SubDefs) :
                   C21_Earlier(i, k, j) =>
                       /\ (SubDefs[k].if.t = "equals" /\ SubDefs[k].if.id = SubDefs[j].id) =>
                              ((ChildFields(i, k) # <<>>)
                                   = StrictEquals(C21_Value(j), SubDefs[k].if.value))
                       /\ (/\ SubDefs[k].if.t = "none"
                           /\ SubDefs[k].repeat.t = "id"
                           /\ SubDefs[k].repeat.id = SubDefs[j].id) =>
                              Len(ChildFields(i, k)) = C21_Value(j).v

RECURSIVE IdsOf(_)
\* the ids the definitions of a list declare, their children and masks included
IdsOf(defs) ==
    IF defs = <<>> THEN {}
    ELSE ({Head(defs).id} \ {NoId})
            \cup IdsOf(Head(defs).subFields)
            \cup ({Head(defs).bitMasks[k].id : k \in 1..Len(Head(defs).bitMasks)} \ {NoId})
            \cup IdsOf(Tail(defs))

\* the section the last call was made in, by its name, and the place of the
\* field in it
C22_SectionIndex ==
    CHOOSE i \in 1..Len(definition.sections) : definition.sections[i].name = lastCall.path[1]
C22_Fields == definition.sections[C22_SectionIndex].fields
C22_FieldIndex == DefIndex(lastCall.path[2], C22_Fields)

\* an id that no field of the section up to the field of the last call declares
C22_Foreign(id) == id \notin IdsOf(SubSeq(C22_Fields, 1, C22_FieldIndex))

\* plain 1-byte leaves only
PlainBytes(defs) ==
    \A i \in 1..Len(defs) : defs[i].kind = "leaf" /\ IsPlain(defs[i]) /\ defs[i].byteSize = 1

\* the id is declared once before the field of the last call, by top-level
\* field m of its section, a uint, and every field read before that one is a
\* plain 1-byte leaf
C22_DeclaredAt(id, m) ==
    /\ m < C22_FieldIndex
    /\ C22_Fields[m].id = id
    /\ C22_Fields[m].parser = Uint
    /\ \A q \in 1..(C22_FieldIndex - 1) : id \in IdsOf(<<C22_Fields[q]>>) => q = m
    /\ PlainBytes(SubSeq(C22_Fields, 1, m))
    /\ \A i \in 1..(C22_SectionIndex - 1) : PlainBytes(definition.sections[i].fields)

\* the byte that field m of the section of the last call was read from
C22_ByteOf(m) ==
    Data[ConsumptionOfAll(FieldsOfSections(SubSeq(definition.sections, 1, C22_SectionIndex - 1)))
            + m]

\* C22: a lookup made for a field of section S returns only a field of S
\* parsed earlier.  A repeat by an id that S declares nowhere up to the field
\* is a missing reference, whatever the sections before and the fields after
\* declare; an equals or lessThan on such an id is false and the field is
\* skipped; and a lookup of an id that S declared once before resolves to the
\* value read for that field of S.
C22_LookupsStayInSection ==
    Called =>
        /\ (TheField.if.t = "none" /\ TheField.repeat.t = "id" /\ C22_Foreign(TheField.repeat.id)) =>
               /\ Returned.err.kind = "MissingReference"
               /\ Returned.offset = lastCall.offset
        /\ (TheField.if.t \in {"equals", "lessThan"} /\ C22_Foreign(TheField.if.id)) =>
               Succeeded /\ Returned.fields = <<>>
        /\ (/\ TheField.if.t = "not"
            /\ TheField.if.c.t \in {"equals", "lessThan"}
            /\ C22_Foreign(TheField.if.c.id)
            /\ IsPlain([TheField EXCEPT !.if = NoCondition])
            /\ HasInput) =>
               Succeeded /\ Len(Returned.fields) = 1
        /\ \A m \in 1..(C22_FieldIndex - 1) :
               /\ (/\ TheField.if.t = "none"
                   /\ TheField.repeat.t = "id"
                   /\ C22_DeclaredAt(TheField.repeat.id, m)
                   /\ Succeeded) =>
                      Len(Returned.fields) = C22_ByteOf(m)
               /\ (/\ TheField.if.t = "equals"
                   /\ C22_DeclaredAt(TheField.if.id, m)
                   /\ TheField.repeat.t = "none"
                   /\ Succeeded) =>
                      ((Returned.fields # <<>>) = (TheField.if.value = Num(C22_ByteOf(m))))

\* C22 happens: in the second section a repeat by an id that only the first
\* section carries ended as a missing reference, and a repeat by an id that
\* both sections carry took the count of the second
C22_Witness ==
    /\ Called
    /\ C22_SectionIndex = 2
    /\ TheField.repeat.t = "id"
    /\ findFieldById(TheField.repeat.id, FieldsOfSections(parsedStructure)).found
    /\ \/ C22_Foreign(TheField.repeat.id) /\ Returned.err.kind = "MissingReference"
       \/ /\ C22_DeclaredAt(TheField.repeat.id, 1)
          /\ Succeeded
          /\ Len(Returned.fields) = 2
          /\ findFieldById(TheField.repeat.id, FieldsOfSections(parsedStructure)).field.parsedValue
                 # Num(2)

\* the last call resolved a repeat by reference: the field is repeated by an
\* id and its condition, if it has one, was met
C23_Applies ==
    /\ Called
    /\ TheField.repeat.t = "id"
    /\ TheField.if.t # "none" => checkFieldCondition(lastCall.section, TheField.if)

\* the field the reference resolves to: [found, field]
C23_Referenced == findFieldById(TheField.repeat.id, lastCall.section.fields)

\* the call threw an Error of this kind before it read: nothing returned, the
\* cursor where it was, the parse failed with that Error
C23_Threw(kind) ==
    /\ Returned.err.kind = kind
    /\ Returned.fields = <<>>
    /\ Returned.offset = lastCall.offset
    /\ status = "failed"
    /\ error.kind = kind
    /\ reader.offset = lastCall.offset

\* C23: a repeat by reference that cannot be used is fatal.  When no parsed
\* field carries the id the parse fails with the missing-reference error; when
\* the field found has no parsedValue or one that is not a number (raw bytes,
\* a string, a boolean, a bit mask container) it fails with the type-mismatch
\* error; either way before any byte of the repeated field is read.
C23_UnusableReferenceIsFatal ==
    C23_Applies =>
        /\ ~C23_Referenced.found => C23_Threw("MissingReference")
        /\ (C23_Referenced.found
                /\ (~C23_Referenced.field.hasValue
                       \/ C23_Referenced.field.parsedValue.t \notin {"num", "float"})) =>
               C23_Threw("TypeMismatch")
        /\ (C23_Referenced.found
                /\ C23_Referenced.field.hasValue
                /\ C23_Referenced.field.parsedValue.t \in {"num", "float"}) =>
               Returned.err.kind \notin {"MissingReference", "TypeMismatch"}

\* C23 happens: a repeat that refers to a bit mask container failed as a type
\* mismatch with the bytes of the repeated field still unread
C23_Witness ==
    /\ C23_Applies
    /\ C23_Referenced.found
    /\ ~C23_Referenced.field.hasValue
    /\ C23_Referenced.field.hasSub
    /\ C23_Threw("TypeMismatch")
    /\ HasInput

\* whether a float is a non-negative integer
FloatIsNatural(bytes) ==
    LET Natural(f) ==
            IF f.exponent = 0 THEN ~FractionTail(f.fraction, 0)
            ELSE IF f.exponent = f.top \/ f.negative \/ f.exponent < f.bias THEN FALSE
            ELSE ~FractionTail(f.fraction, f.exponent - f.bias)
    IN  Natural(FloatParts(bytes))

\* whether a number is a non-negative integer
IsNatural(x) == IF x.t = "float" THEN FloatIsNatural(x.v) ELSE x.v >= 0

\* the last call resolved its repeat to a number: a literal, or the numeric
\* value of the field referred to
C24_Resolved ==
    /\ Called
    /\ TheField.if.t # "none" => checkFieldCondition(lastCall.section, TheField.if)
    /\ RepeatIsTruthy(TheField.repeat)
    /\ TheField.repeat.t = "id" =>
           /\ C23_Referenced.found
           /\ C23_Referenced.field.hasValue
           /\ IsNumber(C23_Referenced.field.parsedValue)

C24_Count ==
    IF TheField.repeat.t = "number" THEN Num(TheField.repeat.n)
    ELSE IF TheField.repeat.t = "float" THEN Flt(TheField.repeat.bytes)
    ELSE C23_Referenced.field.parsedValue

\* C24 (as stated): the repeat count is a non-negative integer before any
\* iteration begins.  When the repeat resolves to a negative number or to a
\* number that is not an integer, from a literal or from the int or float
\* field referred to, the resolution is rejected: the call fails, no instance
\* is parsed and no byte is read.
C24_CountIsNatural ==
    (C24_Resolved /\ ~IsNatural(C24_Count)) =>
        /\ IsError(Returned.err)
        /\ Returned.fields = <<>>
        /\ Returned.offset = lastCall.offset

RECURSIVE PlainTree(_)
\* a definition without conditions, repeats and assertions, at any depth
PlainTree(def) ==
    /\ IsPlain(def)
    /\ \A k \in 1..Len(def.subFields) : PlainTree(def.subFields[k])

RECURSIVE Fits(_, _), FitsAll(_, _)
\* the input holds what a plain definition asks for at the offset: a Leaf or
\* BitMasked field its byteSize, a Nested field its byteSize and, from the same
\* offset on, what its children ask for one after the other
Fits(def, offset) ==
    /\ offset + def.byteSize <= Len(Data)
    /\ def.kind = "nested" => FitsAll(def.subFields, offset)

FitsAll(defs, offset) ==
    \/ defs = <<>>
    \/ /\ Fits(Head(defs), offset)
       /\ FitsAll(Tail(defs), offset + Consumption(Head(defs)))

\* the last call parsed one instance of a plain Nested field
C25_Applies == Called /\ IsNested(TheField) /\ PlainTree(TheField)

\* C25: one instance of a Nested field peeks byteSize bytes at the cursor for
\* its own bytes and fails out of range, the cursor unmoved, when fewer remain;
\* the children then read from the same cursor on, the first where the
\* container peeked, and afterwards the cursor has advanced by what the
\* children consumed, whatever byteSize is.
C25_NestedPeeks ==
    C25_Applies =>
        /\ lastCall.offset + TheField.byteSize > Len(Data) =>
               Returned.err.kind = "OutOfRange" /\ Returned.offset = lastCall.offset
        /\ Succeeded = Fits(TheField, lastCall.offset)
        /\ Succeeded =>
               /\ Len(Returned.fields) = 1
               /\ Returned.fields[1].bytes
                      = Slice(Data, lastCall.offset, lastCall.offset + TheField.byteSize)
               /\ Returned.offset = lastCall.offset + ConsumptionOfAll(TheField.subFields)
               /\ LeafBytesOfLists(Returned.fields[1].subFields)
                      = Slice(Data, lastCall.offset, Returned.offset)

\* C25 happens: a container of 3 bytes whose children take 2 was parsed and
\* the cursor is 2 further
C25_Witness ==
    /\ C25_Applies
    /\ Succeeded
    /\ TheField.byteSize = 3
    /\ Len(Returned.fields[1].bytes) = 3
    /\ Returned.offset = lastCall.offset + 2
    /\ reader.offset = Returned.offset

RECURSIVE SumOfLengths(_)
\* the bits the masks of a list ask for, one after the other
SumOfLengths(bitMasks) ==
    IF bitMasks = <<>> THEN 0 ELSE MaskLength(Head(bitMasks)) + SumOfLengths(Tail(bitMasks))

\* the last call read the bytes of a BitMasked field whose masks ask for more
\* bits than the bytes hold
C27_Applies ==
    /\ Called
    /\ IsBitMasked(TheField)
    /\ IsPlain(TheField)
    /\ HasInput
    /\ SumOfLengths(TheField.bitMasks) > 8 * TheField.byteSize

\* C27 (as stated): the lengths of the masks of a BitMasked field never exceed
\* the bits of its bytes: when they sum to more than 8 * byteSize, resolving
\* the field fails and no mask value is produced from bits beyond the bytes.
C27_MasksWithinCapacity ==
    C27_Applies => IsError(Returned.err) /\ Returned.fields = <<>>

\* the field of the last call is repeated by a reference that cannot be used:
\* no field carries the id, or the one that does has no numeric value
C28_UnusableRepeat ==
    /\ TheField.repeat.t = "id"
    /\ \/ ~C23_Referenced.found
       \/ ~C23_Referenced.field.hasValue
       \/ ~IsNumber(C23_Referenced.field.parsedValue)

\* the field of the last call is gated and would fail if it were resolved
C28_Applies ==
    /\ Called
    /\ TheField.if.t # "none"
    /\ C28_UnusableRepeat \/ TheField.assert.t # "none"

\* C28: the condition is evaluated before the repeat is resolved and before
\* the assertion.  A gated field whose condition is unmet returns the empty
\* list without error and without reading, also when its repeat refers to an
\* id that cannot be resolved or is not numeric and when it carries an
\* assertion its bytes would fail; with the condition met the same field fails
\* on its repeat, or on its assertion once its bytes are read.
C28_GateComesFirst ==
    C28_Applies =>
        IF ~checkFieldCondition(lastCall.section, TheField.if)
        THEN /\ Succeeded
             /\ Returned.fields = <<>>
             /\ Returned.offset = lastCall.offset
        ELSE /\ C28_UnusableRepeat =>
                    Returned.err.kind \in {"MissingReference", "TypeMismatch"}
             /\ (TheField.repeat.t = "none" /\ HasInput
                    /\ TheField.assert.is # Num(FieldInput[1])) =>
                    Returned.err.kind = "AssertionFailed"

\* C28 happens: a gated field repeated by an id that no field carries was
\* skipped without error with bytes left to read, its condition unmet
C28_Witness ==
    /\ C28_Applies
    /\ ~checkFieldCondition(lastCall.section, TheField.if)
    /\ TheField.repeat.t = "id"
    /\ ~C23_Referenced.found
    /\ HasInput
    /\ Succeeded
    /\ Returned.fields = <<>>
    /\ status = "running"

RECURSIVE InParseOrder(_), InParseOrderOfLists(_)
\* the parsed fields of a list and everything below them, depth first: a
\* field, then what its subFields hold, then the next field
InParseOrder(fields) ==
    IF fields = <<>> THEN <<>>
    ELSE <<Head(fields)>>
            \o (IF Head(fields).hasSub THEN InParseOrderOfLists(Head(fields).subFields) ELSE <<>>)
            \o InParseOrder(Tail(fields))

InParseOrderOfLists(lists) ==
    IF lists = <<>> THEN <<>> ELSE InParseOrder(Head(lists)) \o InParseOrderOfLists(Tail(lists))

\* the places, in parse order, of the parsed fields of the section that carry the id
C29_Carriers(id) ==
    {i \in 1..Len(InParseOrder(lastCall.section.fields)) :
        InParseOrder(lastCall.section.fields)[i].id = id}

\* the earliest of them
C29_Earliest(id) == InParseOrder(lastCall.section.fields)[Least(C29_Carriers(id))]

\* C29: a lookup resolves to the first parsed field, depth first in parse
\* order, that carries the id.  When several do, a field repeated by the id is
\* parsed as many times as the value of the earliest says, and a field gated
\* by equals on the id is parsed exactly when the value of the earliest
\* equals; the later carriers never decide.  (Counts that are not natural
\* numbers are the subject of C24.)
C29_FirstMatchDecides ==
    Called =>
        /\ (/\ TheField.repeat.t = "id"
            /\ TheField.if.t = "none"
            /\ C29_Carriers(TheField.repeat.id) # {}
            /\ Succeeded) =>
               /\ C29_Earliest(TheField.repeat.id).hasValue
               /\ IsNumber(C29_Earliest(TheField.repeat.id).parsedValue)
               /\ (C29_Earliest(TheField.repeat.id).parsedValue.t = "num"
                      /\ C29_Earliest(TheField.repeat.id).parsedValue.v >= 0)
                      => Len(Returned.fields) = C29_Earliest(TheField.repeat.id).parsedValue.v
        /\ (/\ TheField.if.t = "equals"
            /\ TheField.repeat.t = "none"
            /\ C29_Carriers(TheField.if.id) # {}
            /\ Succeeded) =>
               ((Returned.fields # <<>>)
                    = (/\ C29_Earliest(TheField.if.id).hasValue
                       /\ C29_Earliest(TheField.if.id).parsedValue = TheField.if.value))

\* C29 happens: two parsed fields carry the id with different values, and the
\* field repeated by it was parsed as many times as the first says
C29_Witness ==
    /\ Called
    /\ TheField.repeat.t = "id"
    /\ Succeeded
    /\ Cardinality(C29_Carriers(TheField.repeat.id)) >= 2
    /\ \E i \in C29_Carriers(TheField.repeat.id) :
           InParseOrder(lastCall.section.fields)[i].parsedValue
               # C29_Earliest(TheField.repeat.id).parsedValue
    /\ Len(Returned.fields) = C29_Earliest(TheField.repeat.id).parsedValue.v
    /\ Len(Returned.fields) >= 2

----------------------------------------------------------------------------
(* Properties of the bit reader *)

\* C26 (as stated): readBits rejects every count that is not positive: a
\* request for 0 bits and a request for a negative number of bits raise an
\* error and leave the bit cursor where it was; a request for k > 0 bits
\* advances the bit cursor by exactly k.
C26_NonPositiveRejected ==
    lastCall.made =>
        /\ lastCall.count <= 0 =>
               IsError(lastCall.ret.err) /\ bitReader.bitOffset = lastCall.bitOffset
        /\ lastCall.count > 0 =>
               ~IsError(lastCall.ret.err)
                   /\ bitReader.bitOffset = lastCall.bitOffset + lastCall.count

----------------------------------------------------------------------------
(* Properties of the generation of Nested fields *)

\* generateStructure resolved a Nested field of the section S
C30_Applies ==
    /\ Called
    /\ phase = "generate"
    /\ IsNested(TheField)
    /\ IsPlain(TheField)

\* the entry of the defaults tree at the path of the field, S.<name>
C30_Entry ==
    LET tree == reader.customByteData
    IN  IF tree.t = "obj" /\ "S" \in DOMAIN tree.v /\ tree.v["S"].t = "obj"
           /\ TheField.name \in DOMAIN tree.v["S"].v
        THEN tree.v["S"].v[TheField.name]
        ELSE NoDefaults

\* all zero
ZeroFilled(bytes) == \A i \in 1..Len(bytes) : bytes[i] = 0

\* the container and every leaf below it hold zeros, as many as they ask for
C30_ZeroFilled ==
    /\ Succeeded
    /\ Returned.fields[1].bytes = Zeros(TheField.byteSize)
    /\ ZeroFilled(LeafBytesOfLists(Returned.fields[1].subFields))

C30_ChildrenRead ==
    {k \in 1..Len(SubDefs) :
        SubDefs[k].if.t # "none" => checkFieldCondition(lastCall.section, SubDefs[k].if)}

\* the call threw the invalid-defaults error with this text for this path
C30_Threw(message, path) ==
    /\ Returned.err.kind = "InvalidDefaults"
    /\ Returned.err.message = message
    /\ Returned.err.path = path
    /\ Returned.fields = <<>>

====
